---- MODULE Spec2Model ----
(***************************************************************************)
(* Model of the peripheral cross-validation harness of tt10-tinyQV:        *)
(*   src/test/test_peripherals.py     direct-override driver (BusMaster),  *)
(*                                    CRC16 reference model, scenarios     *)
(*   src/test/test_peripheral_e2e.py  CPU-injection driver (mmio_write32), *)
(*                                    CRC16 reference model                *)
(*   src/verify/gen_seal_golden.py    seal byte serialisation, golden CRC  *)
(*                                                                         *)
(* Specifications:                                                         *)
(*   SpecCrc   the three crc16_modbus copies applied to byte sequences     *)
(*   SpecSeal  seal serialisation, three-phase word decoders, cross-check  *)
(*   SpecCpu   the instruction synthesiser (mmio_write32)                  *)
(*   Spec      the direct-override driver, clock by clock, against the     *)
(*             seal / CRC peripherals                                      *)
(***************************************************************************)
EXTENDS Integers, Sequences, FiniteSets, TLC

VARIABLES
    \* ---- reference-model inputs and results (SpecCrc, SpecSeal, SpecCpu)
    data,        \* byte sequence handed to crc16_modbus
    crc_tp,      \* result of test_peripherals.crc16_modbus, -1 before the call
    crc_e2e,     \* result of test_peripheral_e2e.crc16_modbus, -1 before the call
    crc_gold,    \* result of gen_seal_golden.crc16_modbus, -1 before the call
    seal_in,     \* [sid, value, mono, crc, r1, r2]: inputs of the seal functions
    seal_out,    \* results of the seal functions
    cpu_in,      \* [offset, val]: arguments of mmio_write32
    cpu,         \* [x1, stream, store, upper, lower]: CPU-injection state
    fpc,         \* position of the pure-function specifications
    \* ---- direct-override driver and peripherals (Spec)
    tb,          \* the testbench lines the driver writes
    pc,          \* position of the test coroutine
    wait,        \* rising edges left of the pending ClockCycles
    rval,        \* the local val of read / read_fast
    last,        \* [op, slot, data, ret]: the running or last BusMaster call
    trace,       \* the lines as seen at each rising edge of that call
    hw,          \* seal / CRC peripheral registers
    sc           \* locals of the scenario (test_seal_commit_mono_increment)

fvars == <<data, crc_tp, crc_e2e, crc_gold, seal_in, seal_out, cpu_in, cpu, fpc>>

bvars == <<tb, pc, wait, rval, last, trace, hw, sc>>

vars == <<fvars, bvars>>

-----------------------------------------------------------------------------
(* Python integer operators on non-negative integers below 2^31.           *)

Pow2Table ==
    << 1, 2, 4, 8, 16, 32, 64, 128, 256, 512, 1024, 2048, 4096, 8192, 16384,
       32768, 65536, 131072, 262144, 524288, 1048576, 2097152, 4194304,
       8388608, 16777216, 33554432, 67108864, 134217728, 268435456,
       536870912, 1073741824 >>

\* 2^n for n in 0..30
Pow2(n) == Pow2Table[n + 1]

\* a >> n
Shr(a, n) == a \div Pow2(n)

\* a << n
Shl(a, n) == a * Pow2(n)

RECURSIVE BitXor(_, _)
\* a ^ b
BitXor(a, b) ==
    IF a = 0 THEN b
    ELSE IF b = 0 THEN a
    ELSE (((a % 2) + (b % 2)) % 2) + 2 * BitXor(a \div 2, b \div 2)

RECURSIVE BitAnd(_, _)
\* a & b
BitAnd(a, b) ==
    IF a = 0 \/ b = 0 THEN 0
    ELSE ((a % 2) * (b % 2)) + 2 * BitAnd(a \div 2, b \div 2)

RECURSIVE BitOr(_, _)
\* a | b
BitOr(a, b) ==
    IF a = 0 THEN b
    ELSE IF b = 0 THEN a
    ELSE (IF (a % 2) = 1 \/ (b % 2) = 1 THEN 1 ELSE 0) + 2 * BitOr(a \div 2, b \div 2)

-----------------------------------------------------------------------------
(* Python integers of 32 bits and more.  The model checker's integers end  *)
(* at 2^31 - 1, so a value that can reach 2^31 is kept as its binary       *)
(* digits, least significant first, without leading zero digits (0 is the  *)
(* empty sequence).  The operators below are Python's on that form.        *)

WMax(x, y) == IF x >= y THEN x ELSE y

WMin(x, y) == IF x <= y THEN x ELSE y

\* a without its leading zero digits
WNorm(a) ==
    LET ones == {i \in 1..Len(a) : a[i] = 1}
    IN  IF ones = {} THEN << >>
        ELSE SubSeq(a, 1, CHOOSE i \in ones : \A j \in ones : j <= i)

\* the wide form of a small integer n >= 0
WInt(n) == WNorm([i \in 1..31 |-> (n \div Pow2(i - 1)) % 2])

RECURSIVE WValFrom(_, _)
WValFrom(a, i) ==
    IF i > Len(a) THEN 0 ELSE a[i] * Pow2(i - 1) + WValFrom(a, i + 1)

\* the small integer a wide value below 2^31 stands for
WVal(a) == WValFrom(a, 1)

\* bit i (from 0) of a
WBit(a, i) == IF i + 1 <= Len(a) THEN a[i + 1] ELSE 0

\* a & b
WAnd(a, b) == WNorm([i \in 1..WMin(Len(a), Len(b)) |-> a[i] * b[i]])

\* a | b
WOr(a, b) ==
    WNorm([i \in 1..WMax(Len(a), Len(b)) |->
              IF WBit(a, i - 1) = 1 \/ WBit(b, i - 1) = 1 THEN 1 ELSE 0])

\* a >> n
WShr(a, n) == IF n >= Len(a) THEN << >> ELSE SubSeq(a, n + 1, Len(a))

\* a << n
WShl(a, n) == IF Len(a) = 0 THEN << >> ELSE [i \in 1..n |-> 0] \o a

\* the carry into digit i (from 0) of a + b
WCarry[a \in Seq({0, 1}), b \in Seq({0, 1}), i \in Nat] ==
    IF i = 0 THEN 0
    ELSE (WBit(a, i - 1) + WBit(b, i - 1) + WCarry[a, b, i - 1]) \div 2

\* a + b
WAdd(a, b) ==
    WNorm([i \in 1..(WMax(Len(a), Len(b)) + 1) |->
              (WBit(a, i - 1) + WBit(b, i - 1) + WCarry[a, b, i - 1]) % 2])

\* a & (2^w - 1)
WTrunc(a, w) == WNorm(SubSeq(a, 1, WMin(w, Len(a))))

\* the w binary digits of a, leading zeros kept
WPad(a, w) == [i \in 1..w |-> WBit(a, i - 1)]

\* the 32-bit value hi * 2^16 + lo
W32(hi, lo) == WNorm(WPad(WInt(lo), 16) \o WPad(WInt(hi), 16))

-----------------------------------------------------------------------------
(* CRC-16/MODBUS reference model, test_peripherals.py:60-69.  The loops    *)
(* are functions, so that each pass works on the value the pass before     *)
(* left in crc.                                                            *)

\* one pass of the inner loop body, lines 65-68
crc16_modbus_shift(crc) ==
    IF BitAnd(crc, 1) # 0
    THEN BitXor(Shr(crc, 1), 40961)
    ELSE Shr(crc, 1)

\* for _ in range(8), line 64: n passes are left
crc16_modbus_range8[crc \in Nat, n \in Nat] ==
    IF n = 0 THEN crc
    ELSE crc16_modbus_range8[crc16_modbus_shift(crc), n - 1]

\* for byte in data: crc ^= byte; 8 passes, lines 62-68, from byte i on
crc16_modbus_loop[bytes \in Seq(Nat), i \in Nat, crc \in Nat] ==
    IF i > Len(bytes) THEN crc
    ELSE crc16_modbus_loop[bytes, i + 1,
                           crc16_modbus_range8[BitXor(crc, bytes[i]), 8]]

\* the mutant: the non-reflected polynomial constant 0x8005
crc16_modbus_m_shift(crc) ==
    IF BitAnd(crc, 1) # 0
    THEN BitXor(Shr(crc, 1), 32773)
    ELSE Shr(crc, 1)

crc16_modbus_m_range8[crc \in Nat, n \in Nat] ==
    IF n = 0 THEN crc
    ELSE crc16_modbus_m_range8[crc16_modbus_m_shift(crc), n - 1]

crc16_modbus_m_loop[bytes \in Seq(Nat), i \in Nat, crc \in Nat] ==
    IF i > Len(bytes) THEN crc
    ELSE crc16_modbus_m_loop[bytes, i + 1,
                             crc16_modbus_m_range8[BitXor(crc, bytes[i]), 8]]

crc16_modbus_m(bytes) == crc16_modbus_m_loop[bytes, 1, 65535]

\* crc16_modbus(data), crc = 0xFFFF at line 61
crc16_modbus(bytes) == crc16_modbus_loop[bytes, 1, 65535]

(* CRC-16/MODBUS reference model, test_peripheral_e2e.py:53-62.            *)

crc16_modbus_e2e_shift(crc) ==
    IF BitAnd(crc, 1) # 0
    THEN BitXor(Shr(crc, 1), 40961)
    ELSE Shr(crc, 1)

crc16_modbus_e2e_range8[crc \in Nat, n \in Nat] ==
    IF n = 0 THEN crc
    ELSE crc16_modbus_e2e_range8[crc16_modbus_e2e_shift(crc), n - 1]

crc16_modbus_e2e_loop[bytes \in Seq(Nat), i \in Nat, crc \in Nat] ==
    IF i > Len(bytes) THEN crc
    ELSE crc16_modbus_e2e_loop[bytes, i + 1,
                               crc16_modbus_e2e_range8[BitXor(crc, bytes[i]), 8]]

crc16_modbus_e2e(bytes) == crc16_modbus_e2e_loop[bytes, 1, 65535]

(* CRC-16/MODBUS, gen_seal_golden.py:25-35.                                *)

crc16_modbus_golden_shift(crc) ==
    IF BitAnd(crc, 1) # 0
    THEN BitXor(Shr(crc, 1), 40961)
    ELSE Shr(crc, 1)

crc16_modbus_golden_range8[crc \in Nat, n \in Nat] ==
    IF n = 0 THEN crc
    ELSE crc16_modbus_golden_range8[crc16_modbus_golden_shift(crc), n - 1]

crc16_modbus_golden_loop[bytes \in Seq(Nat), i \in Nat, crc \in Nat] ==
    IF i > Len(bytes) THEN crc
    ELSE crc16_modbus_golden_loop[bytes, i + 1,
                                  crc16_modbus_golden_range8[BitXor(crc, bytes[i]), 8]]

crc16_modbus_golden(bytes) == crc16_modbus_golden_loop[bytes, 1, 65535]

-----------------------------------------------------------------------------
(* SpecCrc: the input is drawn in the initial state, each copy of          *)
(* crc16_modbus is one action.                                             *)

\* longest sequence of sample bytes drawn
MaxCrcLen == 3

\* bytes the longer sequences are built from
SampleBytes == {0, 1, 85, 128, 170, 255}

\* payloads of test_crc_known_vectors, test_peripherals.py:199-203
KnownVectors ==
    { <<1, 3, 0, 0, 0, 10>>,
      <<49, 50, 51, 52, 53, 54, 55, 56, 57>>,
      <<0>> }

CrcInputs ==
    {<< >>} \cup { <<b>> : b \in 0..255 } \cup KnownVectors
    \cup UNION { [1..n -> SampleBytes] : n \in 2..MaxCrcLen }

SealInNone ==
    [sid |-> 0, value |-> << >>, mono |-> << >>, crc |-> 0, r1 |-> << >>, r2 |-> << >>,
     packed |-> FALSE]

SealOutNone ==
    [bytes_gold |-> << >>, crc_gold |-> -1,
     bytes_tp |-> << >>, crc_tp |-> -1,
     bytes_e2e |-> << >>, crc_e2e |-> -1,
     mono589 |-> << >>,
     dec_tp |-> [sid |-> -1, mono |-> << >>, crc |-> -1],
     dec_e2e |-> [sid |-> -1, mono |-> << >>, crc |-> -1],
     check_v1 |-> -1, check_v2 |-> -1]

CpuInNone == [offset |-> 0, val |-> << >>]

CpuNone ==
    [x1 |-> << >>, stream |-> << >>, store |-> << >>, upper |-> 0, lower |-> 0,
     line |-> [op |-> "none", imm |-> 0, by |-> "none", call |-> 0],
     queue |-> << >>, filler |-> "off", fed |-> 0, mark |-> 0, lat |-> 0]

CrcIdle == data = << >> /\ crc_tp = -1 /\ crc_e2e = -1 /\ crc_gold = -1

SealIdle == seal_in = SealInNone /\ seal_out = SealOutNone

CpuIdle == cpu_in = CpuInNone /\ cpu = CpuNone

TbNone ==
    [override |-> 0, write_n |-> 3, read_n |-> 3, read_complete |-> 0, addr |-> 0,
     wdata |-> << >>, rst_n |-> 1, ui_in_base |-> 0, uio_in |-> 255]

\* the lines after reset_e2e, test_peripheral_e2e.py:103-105
E2eLines == [TbNone EXCEPT !.ui_in_base = 128, !.uio_in = 0]

LastNone ==
    [op |-> "none", by |-> "none", slot |-> 0, data |-> << >>, ret |-> << >>,
     done |-> FALSE, seq0 |-> 0, adv |-> 0, peeked |-> <<FALSE, << >> >>,
     win |-> << >>]

HwNone ==
    [seal_data |-> << >>, sealed_value |-> << >>, sealed_sid |-> 0,
     sealed_mono |-> << >>, sealed_crc |-> 0, mono_count |-> << >>, read_seq |-> 0,
     busy |-> FALSE, byte_idx |-> 0, bit_cnt |-> 0, crc_acc |-> 65535,
     crc_bits |-> 0, gpio_out |-> 0, gpio_sel |-> 0, i2c_word |-> << >>,
     i2c_prescale |-> 0, spi_word |-> << >>,
     tick_cnt |-> 0, us_count |-> 0, rtc_sec |-> << >>,
     wdt_en |-> FALSE, wdt_rem |-> 0, rst_hold |-> 0,
     timer_rem |-> 0, timer_irq |-> 0, pps_sync |-> 0, pps_count |-> 0,
     note |-> [stuck |-> FALSE, rtc_clr |-> FALSE, wdt_armed |-> FALSE, wdt_fired |-> FALSE,
               wdt_v |-> 0, wdt_prev |-> 0,
               tmr_set |-> FALSE, tmr_val |-> 0, tmr_p0 |-> 0, tmr_el |-> 0]]

ScNone ==
    [pos |-> "off", i |-> 0, payload |-> << >>, polls |-> 0,
     ctrl |-> << >>, nread |-> 0, r0 |-> << >>, r1 |-> << >>, r2 |-> << >>,
     peeks |-> 0, peeked |-> <<FALSE, << >> >>, observed |-> << >>,
     test |-> "none", arg |-> << >>, prog |-> << >>, ip |-> 0, log |-> << >>,
     issued |-> << >>]

BusOff ==
    /\ tb = TbNone /\ pc = "off" /\ wait = 0 /\ rval = << >> /\ last = LastNone
    /\ trace = << >> /\ hw = HwNone /\ sc = ScNone

CrcInit ==
    /\ data \in CrcInputs
    /\ crc_tp = -1
    /\ crc_e2e = -1
    /\ crc_gold = -1
    /\ fpc = "crc"
    /\ SealIdle
    /\ CpuIdle
    /\ BusOff

CallCrcPeripherals ==
    /\ fpc = "crc"
    /\ crc_tp = -1
    /\ crc_tp' = crc16_modbus(data)
    /\ UNCHANGED <<data, crc_e2e, crc_gold, seal_in, seal_out, cpu_in, cpu, fpc, bvars>>

CallCrcE2e ==
    /\ fpc = "crc"
    /\ crc_e2e = -1
    /\ crc_e2e' = crc16_modbus_e2e(data)
    /\ UNCHANGED <<data, crc_tp, crc_gold, seal_in, seal_out, cpu_in, cpu, fpc, bvars>>

CallCrcGolden ==
    /\ fpc = "crc"
    /\ crc_gold = -1
    /\ crc_gold' = crc16_modbus_golden(data)
    /\ UNCHANGED <<data, crc_tp, crc_e2e, seal_in, seal_out, cpu_in, cpu, fpc, bvars>>

CrcNext == CallCrcPeripherals \/ CallCrcE2e \/ CallCrcGolden

SpecCrc == CrcInit /\ [][CrcNext]_vars

-----------------------------------------------------------------------------
(* C1.  The CRC-16/MODBUS value as a bit-serial register over bit vectors: *)
(* each data bit, least significant first, is compared with bit 0 of the   *)
(* register, the register moves right by one, and the polynomial 0xA001    *)
(* is added when the two bits differed.                                    *)

BvPoly == [i \in 0..15 |-> i \in {0, 13, 15}]

BvStep(bv, bit) ==
    LET fb == (bv[0] # bit)
        sh == [i \in 0..15 |-> IF i = 15 THEN FALSE ELSE bv[i + 1]]
    IN  [i \in 0..15 |-> IF fb THEN sh[i] # BvPoly[i] ELSE sh[i]]

\* the register after the bits 0..k-1 of the bytes
BvCrc[bytes \in Seq(Nat), k \in Nat] ==
    IF k = 0 THEN [i \in 0..15 |-> TRUE]
    ELSE BvStep(BvCrc[bytes, k - 1],
                (bytes[((k - 1) \div 8) + 1] \div Pow2((k - 1) % 8)) % 2 = 1)

Crc16Serial(bytes) ==
    LET bv == BvCrc[bytes, 8 * Len(bytes)]
    IN  WVal([i \in 1..16 |-> IF bv[i - 1] THEN 1 ELSE 0])

CrcAllCalled == crc_tp # -1 /\ crc_e2e # -1 /\ crc_gold # -1

\* C1: for every byte sequence the three copies of crc16_modbus return the
\* same value, it is the CRC-16/MODBUS value (init 0xFFFF, polynomial 0xA001,
\* bits taken least significant first; check value 0x4B37 for "123456789"),
\* it lies in 0..0xFFFF, and the empty sequence gives 0xFFFF.
C1_CrcIsModbus ==
    /\ crc_tp # -1 =>
          /\ crc_tp \in 0..65535
          /\ crc_tp = Crc16Serial(data)
          /\ (data = << >> => crc_tp = 65535)
          /\ (data = <<49, 50, 51, 52, 53, 54, 55, 56, 57>> => crc_tp = 19255)
    /\ crc_e2e # -1 => crc_e2e = Crc16Serial(data)
    /\ crc_gold # -1 => crc_gold = Crc16Serial(data)
    /\ CrcAllCalled => (crc_tp = crc_e2e /\ crc_e2e = crc_gold)

\* C1 witness: the three copies have been applied to a three-byte sequence
\* whose bytes make the polynomial feedback fire.
C1_Witness == CrcAllCalled /\ data = <<255, 1, 170>>


-----------------------------------------------------------------------------
(* Seal byte serialisation.  sensor_id and the bytes are small integers,   *)
(* value and mono_count are wide.                                          *)

\* the mutant: mono_count serialised most significant byte first
make_seal_bytes_m(sensor_id, value, mono_count) ==
    << BitAnd(sensor_id, 255),
       WVal(WAnd(WShr(value, 0), WInt(255))),
       WVal(WAnd(WShr(value, 8), WInt(255))),
       WVal(WAnd(WShr(value, 16), WInt(255))),
       WVal(WAnd(WShr(value, 24), WInt(255))),
       WVal(WAnd(WShr(mono_count, 24), WInt(255))),
       WVal(WAnd(WShr(mono_count, 16), WInt(255))),
       WVal(WAnd(WShr(mono_count, 8), WInt(255))),
       WVal(WAnd(WShr(mono_count, 0), WInt(255))) >>

\* make_seal_bytes, gen_seal_golden.py:38-52
make_seal_bytes(sensor_id, value, mono_count) ==
    << BitAnd(sensor_id, 255),
       WVal(WAnd(WShr(value, 0), WInt(255))),
       WVal(WAnd(WShr(value, 8), WInt(255))),
       WVal(WAnd(WShr(value, 16), WInt(255))),
       WVal(WAnd(WShr(value, 24), WInt(255))),
       WVal(WAnd(WShr(mono_count, 0), WInt(255))),
       WVal(WAnd(WShr(mono_count, 8), WInt(255))),
       WVal(WAnd(WShr(mono_count, 16), WInt(255))),
       WVal(WAnd(WShr(mono_count, 24), WInt(255))) >>

RECURSIVE to_bytes_m(_, _)
\* the mutant: int.to_bytes(length, "big")
to_bytes_m(v, length) ==
    IF length = 0 THEN << >>
    ELSE to_bytes_m(WShr(v, 8), length - 1) \o <<WVal(WTrunc(v, 8))>>

RECURSIVE to_bytes_little(_, _)
\* int.to_bytes(length, "little") for 0 <= v < 256^length: the remainder
\* modulo 256 first, then the bytes of the quotient;
\* test_peripherals.py:605,637 and test_peripheral_e2e.py:427
to_bytes_little(v, length) ==
    IF length = 0 THEN << >>
    ELSE <<WVal(WTrunc(v, 8))>> \o to_bytes_little(WShr(v, 8), length - 1)

\* crc_input, test_peripherals.py:605,637
seal_bytes_peripherals(sensor_id, payload, actual_mono) ==
    <<sensor_id>> \o to_bytes_little(payload, 4) \o to_bytes_little(actual_mono, 4)

\* seal_bytes, test_peripheral_e2e.py:427
seal_bytes_e2e(sensor_id, test_val, mono_count) ==
    <<sensor_id>> \o to_bytes_little(test_val, 4) \o to_bytes_little(mono_count, 4)

-----------------------------------------------------------------------------
(* Three-phase read words and their decoders.                              *)

\* second word of the three-phase read, {sensor_id[7:0], monotonic_count[23:0]}
SealWord2(sid, mono) == WNorm(WPad(mono, 24) \o WPad(WInt(sid), 8))

\* third word, {monotonic_count[31:24], crc16[15:0], 0x00}
SealWord3(mono, crc) ==
    WNorm(WPad(<< >>, 8) \o WPad(WInt(crc), 16) \o WPad(WShr(WPad(mono, 32), 24), 8))

\* mono, test_peripherals.py:589
decode_mono_increment(r1, r2) ==
    WOr(WShl(WShr(r2, 24), 24), WAnd(r1, WInt(16777215)))

\* the mutant: the low part of monotonic_count masked to 16 bits
decode_random_data_crc_m(session, crc_val) ==
    LET sealed_sid == WAnd(WShr(session, 24), WInt(255))
        sealed_mono_low24 == WAnd(session, WInt(65535))
        sealed_mono_hi8 == WAnd(WShr(crc_val, 24), WInt(255))
        actual_crc == WAnd(WShr(crc_val, 8), WInt(65535))
        actual_mono == WOr(WShl(sealed_mono_hi8, 24), sealed_mono_low24)
    IN  [sid |-> WVal(sealed_sid), mono |-> actual_mono, crc |-> WVal(actual_crc)]

\* sealed_sid, actual_crc, actual_mono, test_peripherals.py:629-634
decode_random_data_crc(session, crc_val) ==
    LET sealed_sid == WAnd(WShr(session, 24), WInt(255))
        sealed_mono_low24 == WAnd(session, WInt(16777215))
        sealed_mono_hi8 == WAnd(WShr(crc_val, 24), WInt(255))
        actual_crc == WAnd(WShr(crc_val, 8), WInt(65535))
        actual_mono == WOr(WShl(sealed_mono_hi8, 24), sealed_mono_low24)
    IN  [sid |-> WVal(sealed_sid), mono |-> actual_mono, crc |-> WVal(actual_crc)]

\* session_id, crc, mono_count, test_peripheral_e2e.py:410-416
decode_e2e(rd1, rd2) ==
    LET session_id == WAnd(WShr(rd1, 24), WInt(255))
        mono_low == WAnd(rd1, WInt(16777215))
        mono_high == WAnd(WShr(rd2, 24), WInt(255))
        crc == WAnd(WShr(rd2, 8), WInt(65535))
        mono_count == WOr(WShl(mono_high, 24), mono_low)
    IN  [sid |-> WVal(session_id), mono |-> mono_count, crc |-> WVal(crc)]

-----------------------------------------------------------------------------
(* SpecSeal: the inputs are drawn in the initial state; the serialisers,   *)
(* the decoders and the generator's cross-check are applied one by one.    *)

SidSamples == {0, 90, 170, 255}

\* 0, 0x7FF, 0x12345678, 0x80000000, 0xDEADBEEF, 0xFFFFFFFF
ValueSamples ==
    { W32(0, 0), W32(0, 2047), W32(4660, 22136), W32(32768, 0),
      W32(57005, 48879), W32(65535, 65535) }

\* 0, 1, 2, 99, 0xFFFFFF, 0x1000000, 0x01020304, 0xFFFFFFFF
MonoSamples ==
    { W32(0, 0), W32(0, 1), W32(0, 2), W32(0, 99), W32(255, 65535),
      W32(256, 0), W32(258, 772), W32(65535, 65535) }

CrcSamples == {0, 22412, 32769, 65535}

WordSamples ==
    { W32(0, 0), W32(255, 65535), W32(256, 0), W32(4660, 22136),
      W32(32768, 0), W32(57005, 48879), W32(65535, 65535) }

SealSerInit ==
    /\ fpc = "ser_gold"
    /\ seal_in \in { [SealInNone EXCEPT !.sid = s, !.value = v, !.mono = m] :
                       s \in SidSamples, v \in ValueSamples, m \in MonoSamples }

SealDecInit ==
    /\ fpc = "dec_mono"
    /\ \/ seal_in \in { [SealInNone EXCEPT !.sid = s, !.mono = m, !.crc = c,
                                           !.r1 = SealWord2(s, m),
                                           !.r2 = SealWord3(m, c),
                                           !.packed = TRUE] :
                          s \in SidSamples, m \in MonoSamples, c \in CrcSamples }
       \/ seal_in \in { [SealInNone EXCEPT !.r1 = a, !.r2 = b] :
                          a \in WordSamples, b \in WordSamples }

SealCheckInit ==
    /\ fpc = "check"
    /\ seal_in = SealInNone

SealInit ==
    /\ SealSerInit \/ SealDecInit \/ SealCheckInit
    /\ seal_out = SealOutNone
    /\ CrcIdle
    /\ CpuIdle
    /\ BusOff

\* data = make_seal_bytes(...); crc = crc16_modbus(data), gen_seal_golden.py:67-68
SerialiseGolden ==
    /\ fpc = "ser_gold"
    /\ LET b == make_seal_bytes(seal_in.sid, seal_in.value, seal_in.mono)
       IN  seal_out' = [seal_out EXCEPT !.bytes_gold = b,
                                        !.crc_gold = crc16_modbus_golden(b)]
    /\ fpc' = "ser_tp"
    /\ UNCHANGED <<data, crc_tp, crc_e2e, crc_gold, seal_in, cpu_in, cpu, bvars>>

\* crc_input and expected_crc, test_peripherals.py:637-638
SerialisePeripherals ==
    /\ fpc = "ser_tp"
    /\ LET b == seal_bytes_peripherals(seal_in.sid, seal_in.value, seal_in.mono)
       IN  seal_out' = [seal_out EXCEPT !.bytes_tp = b,
                                        !.crc_tp = crc16_modbus(b)]
    /\ fpc' = "ser_e2e"
    /\ UNCHANGED <<data, crc_tp, crc_e2e, crc_gold, seal_in, cpu_in, cpu, bvars>>

\* seal_bytes and expected_crc, test_peripheral_e2e.py:427-428
SerialiseE2e ==
    /\ fpc = "ser_e2e"
    /\ LET b == seal_bytes_e2e(seal_in.sid, seal_in.value, seal_in.mono)
       IN  seal_out' = [seal_out EXCEPT !.bytes_e2e = b,
                                        !.crc_e2e = crc16_modbus_e2e(b)]
    /\ fpc' = "ser_done"
    /\ UNCHANGED <<data, crc_tp, crc_e2e, crc_gold, seal_in, cpu_in, cpu, bvars>>

DecodeMonoIncrement ==
    /\ fpc = "dec_mono"
    /\ seal_out' = [seal_out EXCEPT
                       !.mono589 = decode_mono_increment(seal_in.r1, seal_in.r2)]
    /\ fpc' = "dec_tp"
    /\ UNCHANGED <<data, crc_tp, crc_e2e, crc_gold, seal_in, cpu_in, cpu, bvars>>

DecodeRandomDataCrc ==
    /\ fpc = "dec_tp"
    /\ seal_out' = [seal_out EXCEPT
                       !.dec_tp = decode_random_data_crc(seal_in.r1, seal_in.r2)]
    /\ fpc' = "dec_e2e"
    /\ UNCHANGED <<data, crc_tp, crc_e2e, crc_gold, seal_in, cpu_in, cpu, bvars>>

DecodeE2e ==
    /\ fpc = "dec_e2e"
    /\ seal_out' = [seal_out EXCEPT !.dec_e2e = decode_e2e(seal_in.r1, seal_in.r2)]
    /\ fpc' = "dec_done"
    /\ UNCHANGED <<data, crc_tp, crc_e2e, crc_gold, seal_in, cpu_in, cpu, bvars>>

\* the cross-check of main(), gen_seal_golden.py:99-109
GoldenCrossCheck ==
    /\ fpc = "check"
    /\ seal_out' = [seal_out EXCEPT
          !.check_v1 = crc16_modbus_golden(make_seal_bytes(170, W32(0, 0), WInt(0))),
          !.check_v2 = crc16_modbus_golden(
                           make_seal_bytes(255, W32(65535, 65535), WInt(1)))]
    /\ fpc' = "check_done"
    /\ UNCHANGED <<data, crc_tp, crc_e2e, crc_gold, seal_in, cpu_in, cpu, bvars>>

SealNext ==
    \/ SerialiseGolden
    \/ SerialisePeripherals
    \/ SerialiseE2e
    \/ DecodeMonoIncrement
    \/ DecodeRandomDataCrc
    \/ DecodeE2e
    \/ GoldenCrossCheck

SpecSeal == SealInit /\ [][SealNext]_vars

-----------------------------------------------------------------------------
\* C3: the seal CRC of (sensor_id 0xAA, value 0, monotonic_count 0) is 0x578C
\* and of (0xFF, 0xFFFFFFFF, 1) is 0xE80E, in the generator's cross-check and
\* in each of the three serialise-then-CRC paths.
C3_GoldenSealCrc ==
    /\ fpc = "check_done" =>
          (seal_out.check_v1 = 22412 /\ seal_out.check_v2 = 59406)
    /\ (fpc = "ser_done" /\ seal_in.sid = 170 /\ seal_in.value = WInt(0)
          /\ seal_in.mono = WInt(0))
          => (seal_out.crc_gold = 22412 /\ seal_out.crc_tp = 22412
              /\ seal_out.crc_e2e = 22412)
    /\ (fpc = "ser_done" /\ seal_in.sid = 255 /\ seal_in.value = W32(65535, 65535)
          /\ seal_in.mono = WInt(1))
          => (seal_out.crc_gold = 59406 /\ seal_out.crc_tp = 59406
              /\ seal_out.crc_e2e = 59406)

\* C3 witness: the cross-check of the generator has run on both vectors.
C3_Witness == fpc = "check_done" /\ seal_out.check_v1 # -1 /\ seal_out.check_v2 # -1

RECURSIVE LittleEndianValue(_, _, _)
\* the number whose k little-endian bytes start at position i of b:
\* b[i] + 256 * b[i+1] + ...
LittleEndianValue(b, i, k) ==
    IF k = 0 THEN << >>
    ELSE WAdd(WInt(b[i]), WShl(LittleEndianValue(b, i + 1, k - 1), 8))

\* C4: the CRC input is 9 bytes, each in 0..255: sensor_id, then the four
\* bytes of value least significant first, then the four bytes of
\* monotonic_count least significant first; the three serialisations give the
\* same bytes.
C4_SealBytesLayout ==
    fpc = "ser_done" =>
       /\ Len(seal_out.bytes_gold) = 9
       /\ \A i \in 1..9 : seal_out.bytes_gold[i] \in 0..255
       /\ seal_out.bytes_gold[1] = seal_in.sid
       /\ LittleEndianValue(seal_out.bytes_gold, 2, 4) = seal_in.value
       /\ LittleEndianValue(seal_out.bytes_gold, 6, 4) = seal_in.mono
       /\ seal_out.bytes_tp = seal_out.bytes_gold
       /\ seal_out.bytes_e2e = seal_out.bytes_gold

\* C4 witness: the three serialisers have run on a record whose value and
\* monotonic_count have four different bytes each.
C4_Witness ==
    /\ fpc = "ser_done"
    /\ seal_in.sid = 170
    /\ seal_in.value = W32(4660, 22136)
    /\ seal_in.mono = W32(258, 772)
    /\ seal_out.bytes_e2e = <<170, 120, 86, 52, 18, 4, 3, 2, 1>>

\* C7: the decoders undo the word layout (sensor_id, monotonic_count and crc16
\* packed into word 2 and word 3 come back unchanged), and the three decoders
\* of the test files agree on every pair of 32-bit words.
C7_DecodeInvertsLayout ==
    fpc = "dec_done" =>
       /\ seal_out.dec_tp = seal_out.dec_e2e
       /\ seal_out.mono589 = seal_out.dec_tp.mono
       /\ seal_in.packed =>
             seal_out.dec_tp = [sid |-> seal_in.sid, mono |-> seal_in.mono,
                                crc |-> seal_in.crc]

\* C7 witness: a record whose monotonic_count uses its high byte has been
\* packed and decoded by all three decoders.
C7_Witness ==
    /\ fpc = "dec_done"
    /\ seal_in.packed
    /\ seal_in.mono = W32(258, 772) /\ seal_in.sid = 170 /\ seal_in.crc = 22412
    /\ seal_out.mono589 = W32(258, 772)

-----------------------------------------------------------------------------
(* mmio_write32, test_peripheral_e2e.py:73-83.  val is wide; upper and     *)
(* lower are small integers (upper can reach 0x100000).                    *)

\* the mutant: the upper immediate without the correction for a negative addend
mmio_write32_upper_m(val) == WVal(WShr(val, 12))

\* upper = (val >> 12) + ((val >> 11) & 1), line 77
mmio_write32_upper(val) == WVal(WShr(val, 12)) + WVal(WAnd(WShr(val, 11), WInt(1)))

\* lower = val & 0xFFF; if lower >= 0x800: lower -= 0x1000, lines 78-80
mmio_write32_lower(val) ==
    LET lower == WVal(WAnd(val, WInt(4095)))
    IN  IF lower >= 2048 THEN lower - 4096 ELSE lower

\* the mutant: upper is handed to the encoder as it is
mmio_write32_lui_imm_m(upper) == upper

\* the immediate operand of the LUI that line 81 emits
mmio_write32_lui_imm(upper) == BitAnd(upper, 1048575)

\* LUI rd, imm: rd = imm << 12
ExecLUI(imm) == WShl(WInt(imm), 12)

\* the 32-bit two's complement form of a signed 12-bit immediate
SignExtend12(imm) == IF imm >= 0 THEN WInt(imm) ELSE W32(65535, 65536 + imm)

\* ADDI rd, rs, imm: rd = (rs + sign-extended imm) mod 2^32
ExecADDI(x, imm) == WTrunc(WAdd(x, SignExtend12(imm)), 32)

-----------------------------------------------------------------------------
(* SpecCpu: val is drawn in the initial state; mmio_write32 computes the   *)
(* two immediates and sends LUI, ADDI and SW, each executed as it is sent. *)

\* bits 31..12 of the sampled values
UpperSamples == {0, 74565, 524287, 524288, 1048575}

\* bits 11..0 of the sampled values: every pattern
LowerSamples == 0..4095

\* MMIO offsets of the seal registers, test_peripheral_e2e.py:44,47
OffsetSamples == {44}

CpuInit ==
    /\ fpc = "w32"
    /\ cpu_in \in { [offset |-> o, val |-> WNorm(WPad(WInt(l), 12) \o WPad(WInt(u), 20))] :
                      o \in OffsetSamples, u \in UpperSamples, l \in LowerSamples }
    /\ cpu = CpuNone
    /\ CrcIdle
    /\ SealIdle
    /\ BusOff

\* lines 75-80
Write32Split ==
    /\ fpc = "w32"
    /\ LET val == WTrunc(cpu_in.val, 32)
       IN  cpu' = [cpu EXCEPT !.upper = mmio_write32_upper(val),
                              !.lower = mmio_write32_lower(val)]
    /\ fpc' = "lui"
    /\ UNCHANGED <<data, crc_tp, crc_e2e, crc_gold, seal_in, seal_out, cpu_in, bvars>>

\* line 81
Write32SendLUI ==
    /\ fpc = "lui"
    /\ LET imm == mmio_write32_lui_imm(cpu.upper)
       IN  cpu' = [cpu EXCEPT !.stream = Append(@, [op |-> "LUI", imm |-> imm]),
                              !.x1 = ExecLUI(imm)]
    /\ fpc' = "addi"
    /\ UNCHANGED <<data, crc_tp, crc_e2e, crc_gold, seal_in, seal_out, cpu_in, bvars>>

\* line 82
Write32SendADDI ==
    /\ fpc = "addi"
    /\ cpu' = [cpu EXCEPT !.stream = Append(@, [op |-> "ADDI", imm |-> cpu.lower]),
                          !.x1 = ExecADDI(@, cpu.lower)]
    /\ fpc' = "sw"
    /\ UNCHANGED <<data, crc_tp, crc_e2e, crc_gold, seal_in, seal_out, cpu_in, bvars>>

\* line 83
Write32SendSW ==
    /\ fpc = "sw"
    /\ cpu' = [cpu EXCEPT !.stream = Append(@, [op |-> "SW", imm |-> cpu_in.offset]),
                          !.store = <<cpu_in.offset, cpu.x1>>]
    /\ fpc' = "w32_done"
    /\ UNCHANGED <<data, crc_tp, crc_e2e, crc_gold, seal_in, seal_out, cpu_in, bvars>>

CpuNext == Write32Split \/ Write32SendLUI \/ Write32SendADDI \/ Write32SendSW

SpecCpu == CpuInit /\ [][CpuNext]_vars

-----------------------------------------------------------------------------
\* C2: for every 32-bit val, mmio_write32 computes an upper immediate and an
\* addend in -2048..2047 with (upper << 12) + addend = val; when the low 12
\* bits are >= 0x800 the upper part is (val >> 12) + 1 and the addend is the
\* low part minus 0x1000, otherwise they are val >> 12 and the low part; the
\* word stored after LUI, ADDI and SW is val.
C2_Write32Split ==
    /\ fpc \in {"lui", "addi", "sw", "w32_done"} =>
          LET low12 == WVal(WTrunc(cpu_in.val, 12))
              high20 == WVal(WShr(cpu_in.val, 12))
              shifted == WShl(WInt(cpu.upper), 12)
          IN  /\ cpu.lower \in -2048..2047
              /\ IF cpu.lower >= 0
                 THEN WAdd(shifted, WInt(cpu.lower)) = cpu_in.val
                 ELSE shifted = WAdd(cpu_in.val, WInt(0 - cpu.lower))
              /\ IF low12 >= 2048
                 THEN cpu.upper = high20 + 1 /\ cpu.lower = low12 - 4096
                 ELSE cpu.upper = high20 /\ cpu.lower = low12
    /\ fpc = "w32_done" => cpu.store = <<cpu_in.offset, cpu_in.val>>

\* C2 witness: 0xFFFFF800 has been stored: the correction carries out of the
\* 20-bit upper immediate and the addend is -2048.
C2_Witness ==
    /\ fpc = "w32_done"
    /\ cpu_in.val = W32(65535, 63488)
    /\ cpu.upper = 1048576
    /\ cpu.lower = -2048
    /\ cpu.store = <<44, W32(65535, 63488)>>

-----------------------------------------------------------------------------
(* BusMaster, test_peripherals.py:75-152.  Each operator is the block of   *)
(* line assignments between two awaits, applied to the record of lines.    *)

PERI_GPIO_OUT == 0

PERI_CRC16 == 2

PERI_GPIO_OUT_SEL == 3

\* test_peripherals.py:45
PERI_I2C_DATA == 6

\* test_peripherals.py:46
PERI_I2C_CONFIG == 7

\* test_peripherals.py:47
PERI_SPI == 8

\* test_peripherals.py:48
PERI_SPI_STATUS == 9

PERI_RTC == 10

PERI_SEAL_DATA == 11

PERI_TIMER == 12

PERI_WDT == 13

PERI_SEAL_CTRL == 14

PERI_SYSINFO == 15

\* the mutant: the slot index not shifted to bits 6..2
slot_addr_m(slot) == BitOr(Shl(1, 27), slot)

\* BusMaster._slot_addr, lines 87-88
slot_addr(slot) == BitOr(Shl(1, 27), Shl(slot, 2))

\* _safe_int, lines 27-34: the signal's bits, X and Z bits read as 0
safe_int(signal) ==
    WNorm([i \in 1..Len(signal.bits) |->
              IF WBit(signal.xz, i - 1) = 1 THEN 0 ELSE signal.bits[i]])

\* reset_dut, lines 161-169
reset_lines(t) ==
    [t EXCEPT !.override = 0, !.write_n = 3, !.read_n = 3, !.read_complete = 0,
              !.addr = 0, !.wdata = << >>, !.rst_n = 0, !.ui_in_base = 0,
              !.uio_in = 255]

\* BusMaster.enable, lines 92-97
enable(t) ==
    [t EXCEPT !.override = 1, !.write_n = 3, !.read_n = 3, !.read_complete = 0,
              !.addr = 0, !.wdata = << >>]

\* BusMaster.write, lines 107-110
write_assert(t, slot, d) ==
    [t EXCEPT !.addr = slot_addr(slot), !.wdata = d, !.write_n = 2, !.read_n = 3]

\* the mutant: the write strobe is never taken back
write_deassert_m(t) == t

\* BusMaster.write, line 113
write_deassert(t) == [t EXCEPT !.write_n = 3]

\* the mutant: the completion line is raised together with the strobe
read_assert_m(t, slot) ==
    [t EXCEPT !.addr = slot_addr(slot), !.write_n = 3, !.read_n = 2,
              !.read_complete = 1]

\* BusMaster.read, lines 122-124
read_assert(t, slot) ==
    [t EXCEPT !.addr = slot_addr(slot), !.write_n = 3, !.read_n = 2]

\* the mutant: no completion pulse
read_pulse_m(t) == t

\* BusMaster.read, line 131
read_pulse(t) == [t EXCEPT !.read_complete = 1]

\* the mutant: the completion pulse is not taken back
read_release_m(t) == [t EXCEPT !.read_n = 3]

\* BusMaster.read, lines 133-135
read_release(t) == [t EXCEPT !.read_complete = 0, !.read_n = 3]

\* the mutant: read_fast raises the completion line with the strobe
read_fast_assert_m(t, slot) ==
    [t EXCEPT !.addr = slot_addr(slot), !.write_n = 3, !.read_n = 2,
              !.read_complete = 1]

\* BusMaster.read_fast, lines 145-147
read_fast_assert(t, slot) ==
    [t EXCEPT !.addr = slot_addr(slot), !.write_n = 3, !.read_n = 2]

\* the mutant: read_fast returns with the read strobe still on the lines
read_fast_release_m(t) == t

\* BusMaster.read_fast, line 150
read_fast_release(t) == [t EXCEPT !.read_n = 3]

-----------------------------------------------------------------------------
(* The peripherals behind the bus: the seal register and its bit-serial    *)
(* CRC engine, the control register, and the unmapped slots.               *)

\* the registers after reset
HwReset == HwNone

\* addr[6:2]
HwSlot(addr) == BitAnd(Shr(addr, 2), 31)

\* byte idx (0..8) of the record the seal feeds to the CRC engine
HwSealByte(h, idx) ==
    IF idx = 0 THEN h.sealed_sid
    ELSE IF idx <= 4 THEN WVal(WTrunc(WShr(h.sealed_value, 8 * (idx - 1)), 8))
    ELSE WVal(WTrunc(WShr(h.sealed_mono, 8 * (idx - 5)), 8))

\* one clock of the CRC engine: shift right, add 0xA001 when a 1 left
HwCrcShift(acc) ==
    IF acc % 2 = 1 THEN BitXor(acc \div 2, 40961) ELSE acc \div 2

\* the word SEAL_DATA shows in read phase h.read_seq
HwSealWord(h) ==
    IF h.read_seq = 0 THEN h.sealed_value
    ELSE IF h.read_seq = 1 THEN SealWord2(h.sealed_sid, h.sealed_mono)
    ELSE SealWord3(h.sealed_mono, h.sealed_crc)

\* SYSINFO bits[7:0], test_peripherals.py:728
SysVersion == 16

\* SYSINFO bits[15:8], test_peripherals.py:729
SysChipId == 1

\* SYSINFO read: pps_count in bits 31..16, chip_id in 15..8, version in 7..0
HwSysinfoWord(h) == W32(h.pps_count, SysChipId * 256 + SysVersion)

\* one clock of the 1PPS input ui_in[4]: two synchroniser stages and the
\* stage before them in pps_sync bits 0, 1, 2; a rising edge counts
HwPpsClock(h, t) ==
    LET pin == BitAnd(Shr(t.ui_in_base, 4), 1)
        rise == BitAnd(h.pps_sync, 6) = 2
    IN  [h EXCEPT !.pps_sync = BitAnd(h.pps_sync * 2 + pin, 7),
                  !.pps_count = IF rise THEN (@ + 1) % 65536 ELSE @]

\* outputs the peripherals drive on the pins: the SPI chip select, idle high
HwPeriOut == Shl(1, 4)

\* the pins: bit by bit the GPIO_OUT register where GPIO_OUT_SEL is 1
HwPins(h) ==
    BitOr(BitAnd(h.gpio_out, h.gpio_sel), BitAnd(HwPeriOut, 255 - h.gpio_sel))

\* the CRC engine works on a byte of the bus or on the record of the seal
HwCrcBusy(h) == h.crc_bits > 0 \/ h.busy

\* CRC16 read: busy in bit 16, the accumulator in bits 15..0
HwCrcWord(h) ==
    WOr(WInt(h.crc_acc), IF HwCrcBusy(h) THEN WShl(WInt(1), 16) ELSE << >>)

\* tb_rdata while the lines are t
HwRdata(h, t) ==
    LET slot == HwSlot(t.addr)
    IN  [xz |-> << >>,
         bits |-> IF slot >= 16 THEN W32(65535, 65535)
                  ELSE IF slot = PERI_SEAL_DATA THEN HwSealWord(h)
                  ELSE IF slot = PERI_SEAL_CTRL THEN WInt(IF h.busy THEN 1 ELSE 0)
                  ELSE IF slot = PERI_CRC16 THEN HwCrcWord(h)
                  ELSE IF slot = PERI_GPIO_OUT THEN WInt(HwPins(h))
                  ELSE IF slot = PERI_GPIO_OUT_SEL THEN WInt(h.gpio_sel)
                  ELSE IF slot = PERI_RTC THEN h.rtc_sec
                  ELSE IF slot = PERI_TIMER THEN WInt(h.timer_rem)
                  ELSE IF slot = PERI_SYSINFO THEN HwSysinfoWord(h)
                  ELSE IF slot = PERI_WDT THEN WInt(h.wdt_rem)
                  ELSE IF slot = PERI_I2C_DATA THEN h.i2c_word
                  ELSE IF slot = PERI_I2C_CONFIG THEN WInt(h.i2c_prescale)
                  ELSE IF slot = PERI_SPI_STATUS THEN h.spi_word
                  ELSE << >>]

\* a write to CRC16.  With bit 8 set it is an init: the accumulator restarts
\* at 0xFFFF and the bits still to shift of a byte in progress are discarded,
\* whatever the engine is doing.  Else bits 7..0 are a byte: it is XORed into
\* the low 8 bits of the accumulator and shifted for eight clocks.  The spec
\* names no state of the engine in which a write is ignored, and none is
\* modelled.
HwCrcWrite(h, d) ==
    IF WBit(d, 8) = 1 THEN [h EXCEPT !.crc_acc = 65535, !.crc_bits = 0]
    ELSE [h EXCEPT !.crc_acc = BitXor(h.crc_acc, WVal(WTrunc(d, 8))), !.crc_bits = 8]

\* one clock of the CRC engine on a byte of the bus: one bit
HwCrcClock(h) ==
    IF h.crc_bits = 0 THEN h
    ELSE [h EXCEPT !.crc_acc = HwCrcShift(h.crc_acc), !.crc_bits = @ - 1]

\* a write strobe at a rising edge
HwWrite(h, t) ==
    LET slot == HwSlot(t.addr)
    IN  IF t.override = 1 /\ t.write_n # 3 /\ t.addr >= 134217728
        THEN IF slot = PERI_GPIO_OUT
             THEN [h EXCEPT !.gpio_out = WVal(WTrunc(t.wdata, 8))]
             ELSE IF slot = PERI_GPIO_OUT_SEL
             THEN [h EXCEPT !.gpio_sel = WVal(WTrunc(t.wdata, 8))]
             ELSE IF slot = PERI_I2C_CONFIG
             THEN [h EXCEPT !.i2c_prescale = WVal(WTrunc(t.wdata, 16))]
             ELSE IF slot = PERI_CRC16 THEN HwCrcWrite(h, t.wdata)
             ELSE IF slot = PERI_SEAL_DATA THEN [h EXCEPT !.seal_data = t.wdata]
             ELSE IF slot = PERI_SEAL_CTRL /\ WBit(t.wdata, 1) = 1 /\ ~h.busy
             THEN [h EXCEPT !.sealed_value = h.seal_data,
                            !.sealed_sid = WVal(WTrunc(WShr(t.wdata, 2), 8)),
                            !.sealed_mono = h.mono_count,
                            !.mono_count = WTrunc(WAdd(h.mono_count, WInt(1)), 32),
                            !.busy = TRUE, !.byte_idx = 0, !.bit_cnt = 0,
                            !.crc_acc = 65535, !.crc_bits = 0]
             ELSE h
        ELSE h

\* the completion pulse at a rising edge
HwReadComplete(h, t) ==
    IF t.override = 1 /\ t.read_n # 3 /\ t.read_complete = 1
       /\ t.addr >= 134217728 /\ HwSlot(t.addr) = PERI_SEAL_DATA
    THEN [h EXCEPT !.read_seq = (h.read_seq + 1) % 3]
    ELSE h

\* one clock of the seal while it is busy: one bit of the current byte
HwSealClock(h) ==
    IF ~h.busy THEN h
    ELSE LET fed == IF h.bit_cnt = 0
                    THEN BitXor(h.crc_acc, HwSealByte(h, h.byte_idx))
                    ELSE h.crc_acc
             acc == HwCrcShift(fed)
             lastbit == h.bit_cnt = 7
             lastbyte == lastbit /\ h.byte_idx = 8
         IN  [h EXCEPT !.crc_acc = acc,
                       !.bit_cnt = (h.bit_cnt + 1) % 8,
                       !.byte_idx = IF lastbit THEN h.byte_idx + 1 ELSE h.byte_idx,
                       !.busy = ~lastbyte,
                       !.sealed_crc = IF lastbyte THEN acc ELSE h.sealed_crc]

\* the registers after a rising edge with the lines at t
\* one clock of the CRC engine and the seal; with the fault h.note.stuck an
\* engine that has started never finishes
HwEngines(h) == IF h.note.stuck THEN h ELSE HwCrcClock(HwSealClock(h))

HwEdge(h, t) ==
    IF t.rst_n = 0 THEN [HwReset EXCEPT !.note.stuck = h.note.stuck]
    ELSE HwReadComplete(HwWrite(HwEngines(HwPpsClock(h, t)), t), t)

-----------------------------------------------------------------------------
(* The time base, the RTC and the watchdog.  They are left out of HwEdge,  *)
(* whose specifications read no register that depends on them; HwTimeEdge  *)
(* is the clock edge with them.  h.note is not hardware: it keeps, for the *)
(* properties, whether an RTC write restarts the sub-second count (the     *)
(* spec leaves it open, both are modelled), whether the watchdog was ever  *)
(* armed and whether it has fired since, and for the last reload of the    *)
(* watchdog its value and the count it replaced.                           *)

\* clocks per tick_1us, test_peripherals.py:186
TicksPerUs == 25

\* tick_1us per second, test_peripherals.py:527-529
UsPerSecond == 1000000

\* clocks rst_reg_n stays low after the watchdog fires, test_peripherals.py:497
ResetHold == 32

\* tb_rst_reg_n
HwRstRegN(h, t) == IF t.rst_n = 0 \/ h.rst_hold > 0 THEN 0 ELSE 1

\* the registers in reset
HwTimeReset(h) ==
    [HwNone EXCEPT !.note = [h.note EXCEPT !.wdt_armed = FALSE, !.tmr_set = FALSE]]

\* this edge ends a microsecond, and a second
HwTickUs(h) == h.tick_cnt = TicksPerUs - 1

HwTickSecond(h) == HwTickUs(h) /\ h.us_count = UsPerSecond - 1

\* the watchdog runs out: the registers are reset and rst_reg_n is held low
HwWdtFire(h) ==
    [HwNone EXCEPT !.rst_hold = ResetHold,
                   !.note = [h.note EXCEPT !.wdt_fired = TRUE, !.tmr_set = FALSE]]

\* the lines carry a write of a non-zero value to WDT
HwWdtReload(t) ==
    /\ t.override = 1 /\ t.write_n # 3 /\ t.addr >= 134217728
    /\ HwSlot(t.addr) = PERI_WDT /\ WTrunc(t.wdata, 32) # << >>

\* one clock of the time base: the RTC counts seconds, the armed watchdog
\* counts microseconds down and fires when none is left, unless it is
\* reloaded at this edge
HwTimeBase(h, t) ==
    IF HwTickUs(h) /\ h.wdt_en /\ h.wdt_rem <= 1 /\ ~HwWdtReload(t) THEN HwWdtFire(h)
    ELSE [h EXCEPT !.tick_cnt = IF HwTickUs(h) THEN 0 ELSE @ + 1,
                   !.us_count = IF HwTickSecond(h) THEN 0
                                ELSE IF HwTickUs(h) THEN @ + 1 ELSE @,
                   !.rtc_sec = IF HwTickSecond(h)
                               THEN WTrunc(WAdd(@, WInt(1)), 32) ELSE @,
                   !.wdt_rem = IF HwTickUs(h) /\ h.wdt_en THEN @ - 1 ELSE @,
                   !.timer_rem = IF HwTickUs(h) /\ @ > 0 THEN @ - 1 ELSE @,
                   !.timer_irq = IF HwTickUs(h) /\ h.timer_rem = 1 THEN 1 ELSE @,
                   !.note.tmr_el = @ + 1]

\* a write strobe for RTC, TIMER or WDT at the edge that takes g to h: the value
\* written to RTC wins over an increment; a non-zero value arms or reloads
\* the watchdog, zero is ignored
HwTimeWrite(g, h, t) ==
    LET slot == HwSlot(t.addr)
    IN  IF t.override = 1 /\ t.write_n # 3 /\ t.addr >= 134217728 /\ h.rst_hold = 0
        THEN IF slot = PERI_RTC
             THEN [h EXCEPT !.rtc_sec = WTrunc(t.wdata, 32),
                            !.tick_cnt = IF h.note.rtc_clr THEN 0 ELSE @,
                            !.us_count = IF h.note.rtc_clr THEN 0 ELSE @]
             ELSE IF slot = PERI_TIMER
             THEN [h EXCEPT !.timer_rem = WVal(WTrunc(t.wdata, 32)), !.timer_irq = 0,
                            !.note.tmr_set = TRUE,
                            !.note.tmr_val = WVal(WTrunc(t.wdata, 32)),
                            !.note.tmr_p0 = h.tick_cnt,
                            !.note.tmr_el = 0]
             ELSE IF HwWdtReload(t)
             THEN [h EXCEPT !.wdt_en = TRUE, !.wdt_rem = WVal(WTrunc(t.wdata, 32)),
                            !.note.wdt_armed = TRUE, !.note.wdt_fired = FALSE,
                            !.note.wdt_v = WVal(WTrunc(t.wdata, 32)),
                            !.note.wdt_prev = IF g.wdt_en THEN g.wdt_rem ELSE 0]
             ELSE h
        ELSE h

\* the registers after a rising edge with the lines at t, time base included
HwTimeEdge(h, t) ==
    IF t.rst_n = 0 THEN HwTimeReset(h)
    ELSE IF h.rst_hold > 0
    THEN [HwNone EXCEPT !.rst_hold = h.rst_hold - 1, !.note = h.note]
    ELSE HwTimeWrite(h, HwTimeBase(HwEdge(h, t), t), t)

-----------------------------------------------------------------------------
(* Spec: the test coroutine, clock by clock.  A block of code between two  *)
(* awaits is one action; Tick is one rising edge of clk, at which the      *)
(* peripherals see the lines as the last block left them.                  *)

\* commits per run of the scenario
MaxCommits == 2

\* read_fast calls the environment may put between the scenario's calls
MaxPeeks == 2

\* for _ in range(500), test_peripherals.py:576
PollBudget == 500

\* 0xDEADBEEF (test_peripherals.py:654) and 0x12345678
PayloadSamples == { W32(57005, 48879), W32(4660, 22136) }

\* the commit word of the tests, 0x002 (test_peripherals.py:573): bit 1 is
\* the commit bit, bits 9..2 carry the sensor_id, which is 0
CommitWord == 2

\* slots the environment peeks at: SEAL_DATA, SEAL_CTRL and an unmapped slot
PeekSlots == {PERI_SEAL_DATA, PERI_SEAL_CTRL, 16}

\* register contents before reset_dut: cleared, or left over from a run
HwPowerOn ==
    { HwNone,
      [HwNone EXCEPT !.seal_data = W32(1, 1), !.sealed_value = W32(1, 1),
                     !.sealed_sid = 3, !.sealed_mono = WInt(6), !.sealed_crc = 4660,
                     !.mono_count = WInt(7), !.read_seq = 2, !.crc_acc = 4660,
                     !.crc_bits = 3, !.gpio_out = 255, !.gpio_sel = 255,
                     !.pps_sync = 5, !.pps_count = 9] }

InCall ==
    pc \in {"write_strobe", "write_release", "read_settle", "read_hold",
            "read_pulse", "read_release", "fast_settle", "fast_release"}

\* setup(): reset_dut has set the lines (lines 161-169) and waits 15 cycles
Init ==
    /\ fpc = "bus"
    /\ CrcIdle /\ SealIdle /\ CpuIdle
    /\ tb = reset_lines(TbNone)
    /\ hw \in HwPowerOn
    /\ pc = "reset_hold"
    /\ wait = 15
    /\ rval = << >>
    /\ last = LastNone
    /\ trace = << >>
    /\ sc = [ScNone EXCEPT !.pos = "setup"]

\* what a call in flight has seen by the edge that takes the registers from h
\* to g: the read data of the cycle that ends at the edge, and a move of the
\* seal's read phase
Observe(l, h, g, t) ==
    IF InCall
    THEN [l EXCEPT !.adv = IF g.read_seq # h.read_seq THEN @ + 1 ELSE @,
                   !.win = Append(@, safe_int(HwRdata(h, t)))]
    ELSE l

\* one rising edge of clk while the coroutine waits in ClockCycles
Tick ==
    /\ wait > 0
    /\ hw' = HwEdge(hw, tb)
    /\ wait' = wait - 1
    /\ trace' = IF InCall THEN Append(trace, tb) ELSE trace
    /\ last' = Observe(last, hw, hw', tb)
    /\ UNCHANGED <<tb, pc, rval, sc, fvars>>

\* reset_dut, lines 171-172
ResetRelease ==
    /\ pc = "reset_hold" /\ wait = 0
    /\ tb' = [tb EXCEPT !.rst_n = 1]
    /\ wait' = 5
    /\ pc' = "reset_wait"
    /\ UNCHANGED <<rval, last, trace, hw, sc, fvars>>

\* setup, lines 179-180, and BusMaster.enable, lines 92-98
Enable ==
    /\ pc = "reset_wait" /\ wait = 0
    /\ tb' = enable(tb)
    /\ wait' = 1
    /\ pc' = "enable"
    /\ UNCHANGED <<rval, last, trace, hw, sc, fvars>>

\* setup returns bus; the scenario enters its loop (line 567)
SetupReturn ==
    /\ pc = "enable" /\ wait = 0
    /\ pc' = "idle"
    /\ sc' = [sc EXCEPT !.pos = "loop"]
    /\ UNCHANGED <<tb, wait, rval, last, trace, hw, fvars>>

\* entry of a BusMaster call
Begin(op, by, slot, d) ==
    /\ pc = "idle"
    /\ trace' = << >>
    /\ last' = [op |-> op, by |-> by, slot |-> slot, data |-> d, ret |-> << >>,
                done |-> FALSE, seq0 |-> hw.read_seq, adv |-> 0,
                peeked |-> sc.peeked, win |-> << >>]
    /\ UNCHANGED <<hw, rval, fvars>>

\* BusMaster.write, lines 107-111
WriteBegin(slot, d) ==
    /\ Begin("write", "test", slot, d)
    /\ tb' = write_assert(tb, slot, d)
    /\ wait' = 1
    /\ pc' = "write_strobe"

\* BusMaster.read, lines 122-125
ReadBegin(slot) ==
    /\ Begin("read", "test", slot, << >>)
    /\ tb' = read_assert(tb, slot)
    /\ wait' = 2
    /\ pc' = "read_settle"

\* BusMaster.read_fast, lines 145-148
ReadFastBegin(by, slot) ==
    /\ Begin("read_fast", by, slot, << >>)
    /\ tb' = read_fast_assert(tb, slot)
    /\ wait' = 2
    /\ pc' = "fast_settle"

\* what the caller does with the value a call returns
ScAfter(s, l, ret) ==
    IF l.by = "env"
    THEN [s EXCEPT !.peeked = IF l.slot = PERI_SEAL_DATA THEN <<TRUE, ret>> ELSE @]
    ELSE IF s.pos = "w_data" THEN [s EXCEPT !.pos = "gap", !.peeked = <<FALSE, << >> >>]
    ELSE IF s.pos = "w_ctrl" THEN [s EXCEPT !.pos = "poll", !.peeked = <<FALSE, << >> >>]
    ELSE IF s.pos = "polling" THEN [s EXCEPT !.pos = "poll_check", !.ctrl = ret]
    ELSE IF s.pos = "reading"
    THEN [s EXCEPT !.pos = IF s.nread = 2 THEN "decode" ELSE "read",
                   !.nread = @ + 1,
                   !.r0 = IF s.nread = 0 THEN ret ELSE @,
                   !.r1 = IF s.nread = 1 THEN ret ELSE @,
                   !.r2 = IF s.nread = 2 THEN ret ELSE @,
                   !.peeked = <<FALSE, << >> >>]
    ELSE IF s.pos = "call"
    THEN [s EXCEPT !.pos = "run", !.ip = @ + 1,
                   !.log = IF l.op = "write" THEN @
                           ELSE IF s.prog[s.ip].kind = "poll" THEN <<ret>>
                           ELSE Append(@, ret)]
    ELSE s

\* return of a BusMaster call
Return(ret) ==
    /\ wait = 0
    /\ pc' = "idle"
    /\ last' = [last EXCEPT !.ret = ret, !.done = TRUE]
    /\ sc' = ScAfter(sc, last, ret)
    /\ UNCHANGED <<tb, wait, rval, trace, hw, fvars>>

\* BusMaster.write, lines 113-114
WriteDeassert ==
    /\ pc = "write_strobe" /\ wait = 0
    /\ tb' = write_deassert(tb)
    /\ wait' = 1
    /\ pc' = "write_release"
    /\ UNCHANGED <<rval, last, trace, hw, sc, fvars>>

\* BusMaster.write returns
WriteReturn == pc = "write_release" /\ Return(<< >>)

\* BusMaster.read, lines 127-129
ReadSample ==
    /\ pc = "read_settle" /\ wait = 0
    /\ rval' = safe_int(HwRdata(hw, tb))
    /\ wait' = 6
    /\ pc' = "read_hold"
    /\ UNCHANGED <<tb, last, trace, hw, sc, fvars>>

\* BusMaster.read, lines 131-132
ReadPulse ==
    /\ pc = "read_hold" /\ wait = 0
    /\ tb' = read_pulse(tb)
    /\ wait' = 1
    /\ pc' = "read_pulse"
    /\ UNCHANGED <<rval, last, trace, hw, sc, fvars>>

\* BusMaster.read, lines 133-136
ReadRelease ==
    /\ pc = "read_pulse" /\ wait = 0
    /\ tb' = read_release(tb)
    /\ wait' = 1
    /\ pc' = "read_release"
    /\ UNCHANGED <<rval, last, trace, hw, sc, fvars>>

\* BusMaster.read, line 137
ReadReturn == pc = "read_release" /\ Return(rval)

\* BusMaster.read_fast, lines 149-151
ReadFastSample ==
    /\ pc = "fast_settle" /\ wait = 0
    /\ rval' = safe_int(HwRdata(hw, tb))
    /\ tb' = read_fast_release(tb)
    /\ wait' = 1
    /\ pc' = "fast_release"
    /\ UNCHANGED <<last, trace, hw, sc, fvars>>

\* BusMaster.read_fast, line 152
ReadFastReturn == pc = "fast_release" /\ Return(rval)

\* the end of a ClockCycles of the scenario itself
AwaitDone ==
    /\ pc = "gap" /\ wait = 0
    /\ pc' = "idle"
    /\ UNCHANGED <<tb, wait, rval, last, trace, hw, sc, fvars>>

-----------------------------------------------------------------------------
(* The scenario: test_seal_commit_mono_increment, test_peripherals.py      *)
(* 560-594, with the payload drawn from samples, and read_fast calls of    *)
(* the environment in between.                                             *)

\* line 569: await bus.write(PERI_SEAL_DATA, payload)
TestWritePayload ==
    /\ sc.pos = "loop" /\ sc.i < MaxCommits
    /\ \E p \in PayloadSamples :
          /\ WriteBegin(PERI_SEAL_DATA, p)
          /\ sc' = [sc EXCEPT !.pos = "w_data", !.payload = p, !.nread = 0]

\* line 570: await ClockCycles(dut.clk, 2)
TestGap ==
    /\ sc.pos = "gap" /\ pc = "idle"
    /\ wait' = 2
    /\ pc' = "gap"
    /\ sc' = [sc EXCEPT !.pos = "commit"]
    /\ UNCHANGED <<tb, rval, last, trace, hw, fvars>>

\* line 573: await bus.write(PERI_SEAL_CTRL, 0x002)
TestCommit ==
    /\ sc.pos = "commit"
    /\ WriteBegin(PERI_SEAL_CTRL, WInt(CommitWord))
    /\ sc' = [sc EXCEPT !.pos = "w_ctrl", !.polls = 0]

\* lines 576-577 and 581-582: the next poll, or the budget is used up
TestPoll ==
    /\ sc.pos = "poll" /\ pc = "idle"
    /\ IF sc.polls < PollBudget
       THEN /\ ReadFastBegin("test", PERI_SEAL_CTRL)
            /\ sc' = [sc EXCEPT !.pos = "polling"]
       ELSE /\ sc' = [sc EXCEPT !.pos = "fail"]
            /\ UNCHANGED <<tb, pc, wait, rval, last, trace, hw, fvars>>

\* lines 578-580: leave the loop when busy is clear, else wait one cycle
TestPollCheck ==
    /\ sc.pos = "poll_check" /\ pc = "idle"
    /\ IF WVal(WAnd(sc.ctrl, WInt(1))) = 0
       THEN /\ sc' = [sc EXCEPT !.pos = "read", !.polls = 0]
            /\ UNCHANGED <<pc, wait>>
       ELSE /\ sc' = [sc EXCEPT !.pos = "poll", !.polls = @ + 1]
            /\ pc' = "gap"
            /\ wait' = 1
    /\ UNCHANGED <<tb, rval, last, trace, hw, fvars>>

\* lines 585-587: await bus.read(PERI_SEAL_DATA), three times
TestRead ==
    /\ sc.pos = "read"
    /\ ReadBegin(PERI_SEAL_DATA)
    /\ sc' = [sc EXCEPT !.pos = "reading"]

\* lines 589-594: decode mono, compare with prev_mono + 1, next i
TestDecode ==
    /\ sc.pos = "decode" /\ pc = "idle"
    /\ LET mono == decode_mono_increment(sc.r1, sc.r2)
           prev_mono == sc.observed[Len(sc.observed)]
       IN  IF sc.observed # << >> /\ mono # WAdd(prev_mono, WInt(1))
           THEN sc' = [sc EXCEPT !.pos = "fail"]
           ELSE sc' = [sc EXCEPT !.pos = "loop", !.i = @ + 1,
                                 !.observed = Append(@, mono)]
    /\ UNCHANGED <<tb, pc, wait, rval, last, trace, hw, fvars>>

\* a read_fast of the environment between two calls of the scenario
Peek ==
    /\ sc.pos \in {"loop", "gap", "commit", "poll", "poll_check", "read", "decode"}
    /\ sc.peeks < MaxPeeks
    /\ \E slot \in PeekSlots :
          /\ ReadFastBegin("env", slot)
          /\ sc' = [sc EXCEPT !.peeks = @ + 1]

Next ==
    \/ Tick
    \/ ResetRelease
    \/ Enable
    \/ SetupReturn
    \/ WriteDeassert
    \/ WriteReturn
    \/ ReadSample
    \/ ReadPulse
    \/ ReadRelease
    \/ ReadReturn
    \/ ReadFastSample
    \/ ReadFastReturn
    \/ AwaitDone
    \/ TestWritePayload
    \/ TestGap
    \/ TestCommit
    \/ TestPoll
    \/ TestPollCheck
    \/ TestRead
    \/ TestDecode
    \/ Peek

Spec == Init /\ [][Next]_vars

-----------------------------------------------------------------------------
\* C5: in a run from reset the monotonic_count decoded after the k-th commit
\* is k - 1: the first commit shows 0, each later one shows one more than the
\* one before, and the scenario's own comparison never fails.
C5_MonoCountSequence ==
    /\ \A k \in 1..Len(sc.observed) : sc.observed[k] = WInt(k - 1)
    /\ Len(sc.observed) = sc.i
    /\ sc.pos # "fail"

\* C5 witness: two commits have been read back and decoded, 0 and then 1.
C5_Witness ==
    /\ sc.pos = "loop"
    /\ Len(sc.observed) >= 2
    /\ sc.observed[1] = << >>
    /\ sc.observed[2] = <<1>>

\* the three words of the record committed in iteration i of the scenario
ExpectedWord(k) ==
    LET mono == WInt(sc.i)
        sid == BitAnd(Shr(CommitWord, 2), 255)
        crc == crc16_modbus(make_seal_bytes(sid, sc.payload, mono))
    IN  IF k = 0 THEN sc.payload
        ELSE IF k = 1 THEN SealWord2(sid, mono)
        ELSE SealWord3(mono, crc)

\* C6: after a commit has completed, the first read of SEAL_DATA returns
\* value, the second {sensor_id, monotonic_count[23:0]}, the third
\* {monotonic_count[31:24], crc16, 0x00}; each read moves the phase on by one,
\* and after the third the phase is back at the value word, where the reads of
\* the next commit start.
C6_ThreePhaseRead ==
    /\ (sc.pos \in {"read", "reading", "decode"} /\ sc.nread >= 1) => sc.r0 = ExpectedWord(0)
    /\ (sc.pos \in {"read", "reading", "decode"} /\ sc.nread >= 2) => sc.r1 = ExpectedWord(1)
    /\ sc.pos = "decode" => (sc.nread = 3 /\ sc.r2 = ExpectedWord(2))
    /\ (sc.pos = "read" /\ pc = "idle") => hw.read_seq = sc.nread
    /\ sc.pos \in {"decode", "loop", "gap", "commit", "poll", "poll_check"}
          => hw.read_seq = 0

\* C6 witness: the three reads after the second commit are done; the words
\* carry the value 0xDEADBEEF, sensor_id 0 with monotonic_count 1, and a
\* non-zero CRC.
C6_Witness ==
    /\ sc.pos = "decode"
    /\ sc.i = 1
    /\ sc.r0 = W32(57005, 48879)
    /\ sc.r1 = WInt(1)
    /\ WAnd(WShr(sc.r2, 8), WInt(65535)) # << >>

\* the edges of the running or last call at which the completion line was 1
PulseEdges == {k \in 1..Len(trace) : trace[k].read_complete = 1}

\* the address of a slot on the bus: bit 27 and the slot in bits 6..2
BusAddr(slot) == 134217728 + 4 * slot

\* C8: write() shows tb_write_n = 0b10 with the address and the data at
\* exactly one rising edge and the idle lines at the next; read() shows
\* tb_read_n = 0b10 with the address at 2 + 6 edges with tb_read_complete = 0,
\* at one more edge with tb_read_complete = 1, and the idle lines at the last.
C8_DriverCycleCounts ==
    /\ (last.op = "write" /\ last.done) =>
          /\ Len(trace) = 2
          /\ trace[1].write_n = 2 /\ trace[1].read_n = 3
          /\ trace[1].addr = BusAddr(last.slot)
          /\ trace[1].wdata = last.data
          /\ trace[1].override = 1
          /\ trace[2].write_n = 3 /\ trace[2].read_n = 3
    /\ (last.op = "read" /\ last.done) =>
          /\ Len(trace) = 10
          /\ \A k \in 1..9 :
                /\ trace[k].read_n = 2 /\ trace[k].write_n = 3
                /\ trace[k].addr = BusAddr(last.slot)
                /\ trace[k].override = 1
                /\ trace[k].read_complete = (IF k = 9 THEN 1 ELSE 0)
          /\ trace[10].read_n = 3 /\ trace[10].write_n = 3
          /\ trace[10].read_complete = 0

\* C8 witness: a read of SEAL_DATA has returned after ten edges, following
\* the writes of the payload and of the commit word.
C8_Witness ==
    /\ last.op = "read" /\ last.done /\ last.slot = PERI_SEAL_DATA
    /\ Len(trace) = 10
    /\ sc.nread = 1
    /\ last.ret = sc.payload

\* C9: in every call of read the completion line is 1 at exactly one rising
\* edge, the ninth, after eight edges with the read strobe and the same
\* address; the seal's read phase moves exactly once per read.
C9_OneCompletionPulse ==
    last.op = "read" =>
       /\ PulseEdges \subseteq {9}
       /\ last.adv <= 1
       /\ \A k \in PulseEdges : \A j \in 1..k :
             trace[j].read_n = 2 /\ trace[j].addr = trace[1].addr
       /\ last.done =>
             /\ PulseEdges = {9}
             /\ tb.read_complete = 0
             /\ last.adv = 1
             /\ hw.read_seq = (last.seq0 + 1) % 3

\* C9 witness: the third read after a commit has returned; its one pulse took
\* the phase from 2 back to 0.
C9_Witness ==
    /\ last.op = "read" /\ last.done
    /\ last.seq0 = 2 /\ hw.read_seq = 0 /\ last.adv = 1
    /\ PulseEdges = {9}

\* C10: read_fast never shows tb_read_complete = 1 and leaves the seal's read
\* phase where it was; a read that follows read_fast calls on SEAL_DATA returns
\* the word the last of them returned.
C10_ReadFastNoSideEffect ==
    /\ last.op = "read_fast" =>
          /\ PulseEdges = {}
          /\ tb.read_complete = 0
          /\ last.adv = 0
          /\ hw.read_seq = last.seq0
          /\ last.done => Len(trace) = 3
    /\ (last.op = "read" /\ last.done /\ last.peeked[1]) => last.ret = last.peeked[2]

\* C10 witness: the environment peeked at SEAL_DATA between the second and
\* the third read, and the third read has returned the peeked word.
C10_Witness ==
    /\ last.op = "read" /\ last.done
    /\ last.peeked[1]
    /\ last.seq0 = 2
    /\ last.ret = last.peeked[2]
    /\ sc.peeks >= 1

-----------------------------------------------------------------------------
(* The other tests of test_peripherals.py, each as the list of its           *)
(* statements.  A statement is a record: a BusMaster call, a ClockCycles, a  *)
(* direct assignment to the lines, a sample of tb_rdata, a loop header, a    *)
(* break, a loop end or an assert.  sc.prog is the list, sc.ip the           *)
(* statement to run next, sc.log the values read so far, sc.polls the number *)
(* of completed passes of the loop the test is in.                           *)

Stmt(op, kind, slot, d, n) ==
    [op |-> op, kind |-> kind, slot |-> slot, data |-> d, n |-> n]

\* await bus.write(slot, d)
StWrite(slot, d) == Stmt("write", "", slot, WInt(d), 0)

\* v = await bus.read(slot)
StRead(slot) == Stmt("read", "", slot, << >>, 0)

\* v = await bus.read_fast(slot)
StReadFast(slot) == Stmt("read_fast", "", slot, << >>, 0)

\* await ClockCycles(dut.clk, n)
StCycles(n) == Stmt("cycles", "", 0, << >>, n)

\* await bus.write(slot, w) with a value of 32 bits
StWriteW(slot, w) == Stmt("write", "", slot, w, 0)

\* int(dut.tb_rst_reg_n.value)
StProbeRst == Stmt("probe_rst", "", 0, << >>, 0)

\* assert v > 0
StAssertNonzero == Stmt("assert", "nonzero", 0, << >>, 0)

\* assert v < bound
StAssertLt(bound) == Stmt("assert", "lt", 0, << >>, bound)

\* assert v <= bound
StAssertLe(bound) == Stmt("assert", "le", 0, << >>, bound)

\* uo = int(dut.uo_out.value), the pins as the peripherals drive them
StProbePins == Stmt("probe_pins", "", 0, << >>, 0)

\* assert v > 0 or int(dut.tb_rst_reg_n.value) == 0
StAssertAlive == Stmt("assert", "alive", 0, << >>, 0)

\* assert (v >> shift) & mask == expected
StAssertField(shift, mask, expected) ==
    Stmt("assert", "field", 0, << >>, <<shift, mask, expected>>)

\* dut.ui_in_base.value = int(dut.ui_in_base.value) | mask
StUiSet(mask) == Stmt("ui_in", "set", 0, << >>, mask)

\* dut.ui_in_base.value = int(dut.ui_in_base.value) & ~mask
StUiClear(mask) == Stmt("ui_in", "clear", 0, << >>, mask)

\* for _ in range(...):
StFor == Stmt("for", "", 0, << >>, 0)

\* if v & mask: break, the break n statements ahead
StBreakIfSet(mask, n) == Stmt("break", "set", 0, WInt(mask), n)

\* if not (v & mask): break
StBreakIfClear(mask, n) == Stmt("break", "clear", 0, WInt(mask), n)

\* the end of the body of for _ in range(budget), n statements after its
\* first; with kind "strict" the loop has an else: assert False
StLoop(n, budget, kind) == Stmt("loop", kind, 0, << >>, <<n, budget>>)

\* assert (v & 0xFFFF) == expected
StAssertLow16(expected) == Stmt("assert", "low16", 0, << >>, expected)

\* assert v == expected
StAssertEq(expected) == Stmt("assert", "eq", 0, expected, 0)

\* the busy poll of test_peripherals.py:212-216 (budget 20), 263-269
\* (budget 50, with else: assert False) and 295-299
poll_not_busy(budget, kind) ==
    << StFor,
       StReadFast(PERI_CRC16),
       StBreakIfClear(65536, 3),
       StCycles(1),
       StLoop(3, budget, kind) >>

\* the busy poll of test_peripherals.py:576-582 (with else: assert False)
\* and 612-616
poll_seal_done(budget, kind) ==
    << StFor,
       StReadFast(PERI_SEAL_CTRL),
       StBreakIfClear(1, 3),
       StCycles(1),
       StLoop(3, budget, kind) >>

\* assert actual_crc == expected_crc, lines 629-640, of the payload committed
StAssertSealCrc(payload) == Stmt("assert", "seal_crc", 0, payload, 0)

RECURSIVE Flatten(_)
\* the concatenation of a sequence of statement lists
Flatten(ss) == IF ss = << >> THEN << >> ELSE Head(ss) \o Flatten(Tail(ss))

\* the mutant: the bytes are fed without waiting for the engine
test_crc_random_data_m(payload) ==
    << StWrite(PERI_CRC16, 256), StCycles(2) >>
    \o Flatten([i \in 1..Len(payload) |-> << StWrite(PERI_CRC16, payload[i]) >>])
    \o << StReadFast(PERI_CRC16), StAssertLow16(crc16_modbus(payload)) >>

\* one trial of test_crc_random_data, test_peripherals.py:229-245
test_crc_random_data(payload) ==
    << StWrite(PERI_CRC16, 256), StCycles(2) >>
    \o Flatten([i \in 1..Len(payload) |->
                   << StWrite(PERI_CRC16, payload[i]), StCycles(10) >>])
    \o << StReadFast(PERI_CRC16), StAssertLow16(crc16_modbus(payload)) >>

\* one vector of test_crc_known_vectors, test_peripherals.py:205-221
crc_known_vector(payload) ==
    << StWrite(PERI_CRC16, 256), StCycles(2) >>
    \o Flatten([i \in 1..Len(payload) |->
                   << StWrite(PERI_CRC16, payload[i]) >> \o poll_not_busy(20, "")])
    \o << StReadFast(PERI_CRC16), StAssertLow16(crc16_modbus(payload)) >>

\* test_crc_known_vectors, test_peripherals.py:198-221: the three vectors in
\* the order of the list
test_crc_known_vectors ==
    crc_known_vector(<<1, 3, 0, 0, 0, 10>>)
    \o crc_known_vector(<<49, 50, 51, 52, 53, 54, 55, 56, 57>>)
    \o crc_known_vector(<<0>>)

\* test_crc_stress_rapid_fire, test_peripherals.py:254-273
test_crc_stress_rapid_fire(payload) ==
    << StWrite(PERI_CRC16, 256), StCycles(2) >>
    \o Flatten([i \in 1..Len(payload) |->
                   << StWrite(PERI_CRC16, payload[i]) >> \o poll_not_busy(50, "strict")])
    \o << StReadFast(PERI_CRC16), StAssertLow16(crc16_modbus(payload)) >>

\* the mutant: no second init after 0xAA
test_crc_init_during_busy_m ==
    << StWrite(PERI_CRC16, 256), StCycles(2), StWrite(PERI_CRC16, 170),
       StCycles(5), StCycles(5), StWrite(PERI_CRC16, 85) >>
    \o poll_not_busy(20, "")
    \o << StReadFast(PERI_CRC16), StAssertLow16(crc16_modbus(<<85>>)) >>

\* test_crc_init_during_busy, test_peripherals.py:281-303
test_crc_init_during_busy ==
    << StWrite(PERI_CRC16, 256), StCycles(2), StWrite(PERI_CRC16, 170),
       StWrite(PERI_CRC16, 256), StCycles(5), StWrite(PERI_CRC16, 85) >>
    \o poll_not_busy(20, "")
    \o << StReadFast(PERI_CRC16), StAssertLow16(crc16_modbus(<<85>>)) >>

\* the mutant: the word written to SEAL_CTRL has no commit bit
test_seal_crc_arbitration_m ==
    << Stmt("write", "", PERI_SEAL_DATA, W32(4660, 22136), 0),
       StCycles(2),
       StWrite(PERI_SEAL_CTRL, 0),
       StCycles(2),
       StFor,
       StReadFast(PERI_CRC16),
       StBreakIfSet(65536, 5),
       StReadFast(PERI_SEAL_CTRL),
       StBreakIfClear(1, 3),
       StCycles(1),
       StLoop(5, 50, "") >>

\* test_seal_crc_arbitration, test_peripherals.py:688-704; 0x12345678 is
\* written as its two halves joined
test_seal_crc_arbitration ==
    << Stmt("write", "", PERI_SEAL_DATA, W32(4660, 22136), 0),
       StCycles(2),
       StWrite(PERI_SEAL_CTRL, 2),
       StCycles(2),
       StFor,
       StReadFast(PERI_CRC16),
       StBreakIfSet(65536, 5),
       StReadFast(PERI_SEAL_CTRL),
       StBreakIfClear(1, 3),
       StCycles(1),
       StLoop(5, 50, "") >>

\* the mutant: valid_slots is set(range(15))
test_address_decode_all_slots_m ==
    Flatten([i \in 1..32 |->
                IF i - 1 >= 15
                THEN << StReadFast(i - 1), StAssertEq(W32(65535, 65535)) >>
                ELSE << StReadFast(i - 1) >>])

\* test_address_decode_all_slots, test_peripherals.py:901-908
test_address_decode_all_slots ==
    Flatten([i \in 1..32 |->
                IF i - 1 >= 16
                THEN << StReadFast(i - 1), StAssertEq(W32(65535, 65535)) >>
                ELSE << StReadFast(i - 1) >>])

\* test_read_stability_rule_b, test_peripherals.py:947-970.  Lines 953-955
\* set the lines for a read without BusMaster, line 960 samples tb_rdata,
\* line 965 takes the strobe back.
test_read_stability_rule_b ==
    << StWrite(PERI_GPIO_OUT_SEL, 255),
       StWrite(PERI_GPIO_OUT, 66),
       StCycles(2),
       Stmt("drive_read", "", PERI_GPIO_OUT, << >>, 0),
       StCycles(1) >>
    \o Flatten([i \in 1..8 |-> << Stmt("sample", "", 0, << >>, 0), StCycles(1) >>])
    \o << Stmt("release_read", "", 0, << >>, 0),
          StCycles(1),
          Stmt("assert", "stable", 0, << >>, 0),
          Stmt("assert", "low8", 0, << >>, 66) >>

\* the mutant: the manual read asserts the write strobe as well
rule_b_drive_m(t, slot) ==
    [t EXCEPT !.addr = slot_addr(slot), !.write_n = 2, !.read_n = 2]

\* test_peripherals.py:953-955
rule_b_drive(t, slot) ==
    [t EXCEPT !.addr = slot_addr(slot), !.write_n = 3, !.read_n = 2]

\* test_peripherals.py:965
rule_b_release(t) == [t EXCEPT !.read_n = 3]

\* the condition of an assert statement o, on the values read so far
AssertHolds(o, log) ==
    LET v == log[Len(log)]
    IN  IF o.kind = "low16" THEN WVal(WAnd(v, WInt(65535))) = o.n
        ELSE IF o.kind = "eq" THEN v = o.data
        ELSE IF o.kind = "stable" THEN \A k \in 1..Len(log) : log[k] = log[1]
        ELSE IF o.kind = "low8" THEN WVal(WAnd(log[1], WInt(255))) = o.n
        ELSE IF o.kind = "nonzero" THEN v # << >>
        ELSE IF o.kind = "seal_crc"
        THEN LET d == decode_random_data_crc(log[Len(log) - 1], v)
             IN  d.crc = crc16_modbus(seal_bytes_peripherals(0, o.data, d.mono))
        ELSE IF o.kind = "field"
        THEN WVal(WAnd(WShr(v, o.n[1]), WInt(o.n[2]))) = o.n[3]
        ELSE IF o.kind = "alive" THEN log[Len(log) - 1] # << >> \/ v = << >>
        ELSE IF o.kind = "first_eq" THEN log[Len(log) - 2] = o.data
        ELSE IF o.kind = "mono_eq"
        THEN decode_random_data_crc(log[Len(log) - 1], v).mono = o.data
        ELSE IF o.kind = "crc_nonzero"
        THEN decode_random_data_crc(log[Len(log) - 1], v).crc # 0
        ELSE IF o.kind = "low8_is_prev" THEN WAnd(v, WInt(255)) = log[Len(log) - 1]
        ELSE IF o.kind = "lt_prev" THEN WVal(v) < WVal(log[Len(log) - 1])
        ELSE IF o.kind = "gt_prev" THEN WVal(v) > WVal(log[Len(log) - 1])
        ELSE IF o.kind = "lt" THEN WVal(v) < o.n
        ELSE IF o.kind = "le" THEN WVal(v) <= o.n
        ELSE IF o.kind = "e2e_mono" THEN decode_e2e(log[Len(log) - 1], v).mono = o.data
        ELSE IF o.kind = "e2e_crc"
        THEN LET d == decode_e2e(log[Len(log) - 1], v)
             IN  d.crc = crc16_modbus_e2e(seal_bytes_e2e(0, o.data, d.mono))
        ELSE FALSE

\* the statement the test is at
Cur == sc.prog[sc.ip]

\* the test is between two statements, at a statement with operation op
At(op) ==
    /\ sc.pos = "run" /\ pc = "idle"
    /\ sc.ip <= Len(sc.prog)
    /\ Cur.op = op

\* the test has run to its end without a failed assert
ScriptDone == sc.pos = "run" /\ pc = "idle" /\ sc.ip > Len(sc.prog)

\* setup returns bus; the test goes on with its first statement
ScriptStart ==
    /\ pc = "enable" /\ wait = 0
    /\ pc' = "idle"
    /\ sc' = [sc EXCEPT !.pos = "run", !.ip = 1]
    /\ UNCHANGED <<tb, wait, rval, last, trace, hw, fvars>>

RunWrite ==
    /\ At("write")
    /\ WriteBegin(Cur.slot, Cur.data)
    /\ sc' = [sc EXCEPT !.pos = "call"]

RunRead ==
    /\ At("read")
    /\ ReadBegin(Cur.slot)
    /\ sc' = [sc EXCEPT !.pos = "call"]

RunReadFast ==
    /\ At("read_fast")
    /\ ReadFastBegin("test", Cur.slot)
    /\ sc' = [sc EXCEPT !.pos = "call"]

RunCycles ==
    /\ At("cycles")
    /\ wait' = Cur.n
    /\ pc' = "gap"
    /\ sc' = [sc EXCEPT !.ip = @ + 1]
    /\ UNCHANGED <<tb, rval, last, trace, hw, fvars>>

RunFor ==
    /\ At("for")
    /\ sc' = [sc EXCEPT !.ip = @ + 1, !.polls = 0]
    /\ UNCHANGED <<tb, pc, wait, rval, last, trace, hw, fvars>>

RunBreak ==
    /\ At("break")
    /\ LET hit == WAnd(sc.log[Len(sc.log)], Cur.data) # << >>
       IN  sc' = [sc EXCEPT !.ip = IF hit <=> (Cur.kind = "set")
                                   THEN @ + Cur.n ELSE @ + 1]
    /\ UNCHANGED <<tb, pc, wait, rval, last, trace, hw, fvars>>

\* the next pass of the loop, or the range is used up: the statement after
\* the loop, or the assert False of its else
RunLoop ==
    /\ At("loop")
    /\ IF sc.polls + 1 < Cur.n[2]
       THEN sc' = [sc EXCEPT !.ip = @ - Cur.n[1], !.polls = @ + 1]
       ELSE IF Cur.kind = "strict"
       THEN sc' = [sc EXCEPT !.pos = "fail"]
       ELSE sc' = [sc EXCEPT !.ip = @ + 1, !.polls = @ + 1]
    /\ UNCHANGED <<tb, pc, wait, rval, last, trace, hw, fvars>>

RunDriveRead ==
    /\ At("drive_read")
    /\ tb' = rule_b_drive(tb, Cur.slot)
    /\ sc' = [sc EXCEPT !.ip = @ + 1]
    /\ UNCHANGED <<pc, wait, rval, last, trace, hw, fvars>>

RunSample ==
    /\ At("sample")
    /\ sc' = [sc EXCEPT !.ip = @ + 1, !.log = Append(@, safe_int(HwRdata(hw, tb)))]
    /\ UNCHANGED <<tb, pc, wait, rval, last, trace, hw, fvars>>

RunReleaseRead ==
    /\ At("release_read")
    /\ tb' = rule_b_release(tb)
    /\ sc' = [sc EXCEPT !.ip = @ + 1]
    /\ UNCHANGED <<pc, wait, rval, last, trace, hw, fvars>>

RunAssert ==
    /\ At("assert")
    /\ sc' = IF AssertHolds(Cur, sc.log)
             THEN [sc EXCEPT !.ip = @ + 1]
             ELSE [sc EXCEPT !.pos = "fail"]
    /\ UNCHANGED <<tb, pc, wait, rval, last, trace, hw, fvars>>

\* BusMaster.disable, line 102
disable(t) == [t EXCEPT !.override = 0]

\* await bus.disable(), lines 100-103
RunDisable ==
    /\ At("disable")
    /\ tb' = disable(tb)
    /\ wait' = 2
    /\ pc' = "gap"
    /\ sc' = [sc EXCEPT !.ip = @ + 1]
    /\ UNCHANGED <<rval, last, trace, hw, fvars>>

\* await bus.enable(), lines 92-98
RunEnable ==
    /\ At("enable")
    /\ tb' = enable(tb)
    /\ wait' = 1
    /\ pc' = "gap"
    /\ sc' = [sc EXCEPT !.ip = @ + 1]
    /\ UNCHANGED <<rval, last, trace, hw, fvars>>

-----------------------------------------------------------------------------
(* SpecPeri: setup() and then one test, drawn at the start.  Next to the     *)
(* tests of the file there are five uses of BusMaster the tests do not       *)
(* make: a read() of CRC16 right after a byte, a read_fast of an unmapped    *)
(* slot before every statement of a test, a disable()/enable() pair before  *)
(* a statement of a test, an init of CRC16 at each distance from the byte    *)
(* before it, and an init of CRC16 while the seal feeds its record to the    *)
(* engine.                                                                   *)

\* longest payload fed to the CRC16 register
MaxFeed == 2

\* bytes the payloads are built from
FeedBytes == {0, 85, 255}

FeedPayloads == UNION { [1..n -> FeedBytes] : n \in 0..MaxFeed }

\* unmapped slots probed between the statements of a test
ProbeSlots == {16, 31}

\* bus.read(PERI_CRC16) directly after a byte is written
read_crc16_after_byte(b) ==
    << StWrite(PERI_CRC16, 256), StCycles(2), StWrite(PERI_CRC16, b),
       StRead(PERI_CRC16) >>

\* a commit of the seal as in test_peripherals.py:689-692, then 80 cycles
seal_commit_and_wait ==
    << Stmt("write", "", PERI_SEAL_DATA, W32(4660, 22136), 0), StCycles(2),
       StWrite(PERI_SEAL_CTRL, 2), StCycles(2), StCycles(80) >>

\* prog with the read and the assert of test_peripherals.py:905-908 for the
\* unmapped slot put before each of its statements but the asserts
with_probes(prog, slot) ==
    Flatten([i \in 1..Len(prog) |->
                IF prog[i].op = "assert" THEN << prog[i] >>
                ELSE << StReadFast(slot), StAssertEq(W32(65535, 65535)), prog[i] >>])

\* prog with bus.disable() and bus.enable() put before its statement k
with_handover(prog, k) ==
    SubSeq(prog, 1, k - 1)
    \o << Stmt("disable", "", 0, << >>, 0), Stmt("enable", "", 0, << >>, 0) >>
    \o SubSeq(prog, k, Len(prog))

\* cycles between the commit of the seal and the init of CRC16: the seal
\* feeds its nine bytes for 72 clocks
SealInitPhases == {1, 4, 30, 60}

\* a commit of the seal as in test_peripherals.py:689-692, an init of CRC16
\* k cycles into the record, and a read of CRC16 and of SEAL_CTRL after it
init_in_seal(k) ==
    << Stmt("write", "", PERI_SEAL_DATA, W32(4660, 22136), 0), StCycles(2),
       StWrite(PERI_SEAL_CTRL, 2), StCycles(k),
       StWrite(PERI_CRC16, 256),
       StReadFast(PERI_CRC16),
       StReadFast(PERI_SEAL_CTRL) >>

\* cycles between a byte and the init that follows it
InitPhases == 0..9

\* test_crc_init_during_busy with k cycles between the byte b1 and the second
\* init, and the byte b2 after it
init_at_phase(k, b1, b2) ==
    << StWrite(PERI_CRC16, 256), StCycles(2), StWrite(PERI_CRC16, b1) >>
    \o (IF k = 0 THEN << >> ELSE << StCycles(k) >>)
    \o << StWrite(PERI_CRC16, 256), StCycles(5), StWrite(PERI_CRC16, b2) >>
    \o poll_not_busy(20, "")
    \o << StReadFast(PERI_CRC16), StAssertLow16(crc16_modbus(<<b2>>)) >>

Test(name, arg, prog) == [test |-> name, arg |-> arg, prog |-> prog]

\* trials of test_seal_random_data_crc, test_peripherals.py:602
NumTrials == 3

\* test_seal_random_data_crc, variant that commits with sensor_id 1
test_seal_random_data_crc_m(payloads) ==
    Flatten([trial \in 1..NumTrials |->
                << StWriteW(PERI_SEAL_DATA, payloads[trial]),
                   StCycles(2),
                   StWrite(PERI_SEAL_CTRL, 6) >>
                \o poll_seal_done(PollBudget, "")
                \o << StRead(PERI_SEAL_DATA),
                      StRead(PERI_SEAL_DATA),
                      StRead(PERI_SEAL_DATA),
                      StAssertSealCrc(payloads[trial]) >>])

\* test_seal_random_data_crc, test_peripherals.py:602-642, with the payloads
\* of line 603 in payloads
test_seal_random_data_crc(payloads) ==
    Flatten([trial \in 1..NumTrials |->
                << StWriteW(PERI_SEAL_DATA, payloads[trial]),
                   StCycles(2),
                   StWrite(PERI_SEAL_CTRL, 2) >>
                \o poll_seal_done(PollBudget, "")
                \o << StRead(PERI_SEAL_DATA),
                      StRead(PERI_SEAL_DATA),
                      StRead(PERI_SEAL_DATA),
                      StAssertSealCrc(payloads[trial]) >>])

\* payloads of line 603
SealPayloadRuns ==
    { << W32(4660, 22136), << >>, W32(65535, 65535) >>,
      << W32(65535, 65535), W32(65535, 65535), WInt(1) >>,
      << WInt(170), W32(43981, 1), W32(32768, 0) >> }

\* rounds of test_gpio_readback_consistency, test_peripherals.py:343
NumRounds == 10

\* test_gpio_readback_consistency, variant that leaves the upper four pins
\* to the peripherals
test_gpio_readback_consistency_m(vals, delays) ==
    Flatten([i \in 1..NumRounds |->
                << StWrite(PERI_GPIO_OUT_SEL, 15),
                   StWrite(PERI_GPIO_OUT, vals[i]),
                   StCycles(delays[i]),
                   StReadFast(PERI_GPIO_OUT),
                   StAssertField(0, 255, vals[i]) >>])

\* test_gpio_readback_consistency, test_peripherals.py:343-351, with the
\* values of line 344 in vals and the delays of line 347 in delays
test_gpio_readback_consistency(vals, delays) ==
    Flatten([i \in 1..NumRounds |->
                << StWrite(PERI_GPIO_OUT_SEL, 255),
                   StWrite(PERI_GPIO_OUT, vals[i]),
                   StCycles(delays[i]),
                   StReadFast(PERI_GPIO_OUT),
                   StAssertField(0, 255, vals[i]) >>])

\* delays of line 347, from 1 to 50 clocks
GpioDelays == << 1, 50, 2, 3, 7, 10, 25, 49, 5, 4 >>

\* values of line 344: run r writes 10 r .. 10 r + 9 (mod 256), so that the
\* runs together write every value 0..255; run r starts the delays at the
\* r-th of GpioDelays
GpioRuns ==
    { << [i \in 1..NumRounds |-> (10 * r + i - 1) % 256],
         [i \in 1..NumRounds |-> GpioDelays[((r + i) % 10) + 1]] >> : r \in 0..25 }

PeriTests ==
    { Test("test_crc_random_data", p, test_crc_random_data(p)) : p \in FeedPayloads }
    \cup { Test("test_seal_random_data_crc", p, test_seal_random_data_crc(p)) :
             p \in SealPayloadRuns }
    \cup { Test("test_gpio_readback_consistency", g[1],
                 test_gpio_readback_consistency(g[1], g[2])) : g \in GpioRuns }
    \cup { Test("test_crc_stress_rapid_fire", p, test_crc_stress_rapid_fire(p)) :
             p \in FeedPayloads }
    \cup { Test("test_crc_known_vectors", << >>, test_crc_known_vectors),
           Test("test_crc_init_during_busy", <<85>>, test_crc_init_during_busy),
           Test("test_seal_crc_arbitration", << >>, test_seal_crc_arbitration),
           Test("test_address_decode_all_slots", << >>, test_address_decode_all_slots),
           Test("test_read_stability_rule_b", << >>, test_read_stability_rule_b) }
    \cup { Test("init_at_phase", <<k, b[1], b[2]>>, init_at_phase(k, b[1], b[2])) :
             k \in InitPhases, b \in {<<170, 85>>, <<255, 0>>} }
    \cup { Test("init_in_seal", <<k>>, init_in_seal(k)) : k \in SealInitPhases }
    \cup { Test("handover", <<k>>, with_handover(test_crc_random_data(<<85>>), k)) :
             k \in 1..Len(test_crc_random_data(<<85>>)) }
    \cup { Test("read_crc16_after_byte", <<b>>, read_crc16_after_byte(b)) :
             b \in FeedBytes }
    \cup { Test("probes", <<slot>>, with_probes(test_crc_random_data(p), slot)) :
             p \in FeedPayloads, slot \in ProbeSlots }
    \cup { Test("probes", <<slot>>, with_probes(seal_commit_and_wait, slot)) :
             slot \in ProbeSlots }

\* setup(): reset_dut has set the lines (lines 161-169) and waits 15 cycles
PeriInit ==
    /\ fpc = "peri"
    /\ CrcIdle /\ SealIdle /\ CpuIdle
    /\ tb = reset_lines(TbNone)
    /\ hw \in HwPowerOn
    /\ pc = "reset_hold"
    /\ wait = 15
    /\ rval = << >>
    /\ last = LastNone
    /\ trace = << >>
    /\ sc \in { [ScNone EXCEPT !.pos = "setup", !.test = t.test, !.arg = t.arg,
                               !.prog = t.prog] : t \in PeriTests }

PeriNext ==
    \/ Tick
    \/ ResetRelease
    \/ Enable
    \/ ScriptStart
    \/ WriteDeassert
    \/ WriteReturn
    \/ ReadSample
    \/ ReadPulse
    \/ ReadRelease
    \/ ReadReturn
    \/ ReadFastSample
    \/ ReadFastReturn
    \/ AwaitDone
    \/ RunWrite
    \/ RunRead
    \/ RunReadFast
    \/ RunCycles
    \/ RunFor
    \/ RunBreak
    \/ RunLoop
    \/ RunDriveRead
    \/ RunSample
    \/ RunReleaseRead
    \/ RunAssert
    \/ RunDisable
    \/ RunEnable

SpecPeri == PeriInit /\ [][PeriNext]_vars

-----------------------------------------------------------------------------
(* SpecStuck: the tests with a busy poll, on a device whose engines never  *)
(* finish what they have started.                                          *)

StuckTests ==
    { Test("test_crc_known_vectors", << >>, test_crc_known_vectors) }
    \cup { Test("test_crc_stress_rapid_fire", p, test_crc_stress_rapid_fire(p)) :
             p \in { <<85>>, <<0, 255>> } }
    \cup { Test("test_seal_random_data_crc", p, test_seal_random_data_crc(p)) :
             p \in SealPayloadRuns }

\* reset_dut, lines 161-169
StuckInit ==
    /\ fpc = "stuck"
    /\ CrcIdle /\ SealIdle /\ CpuIdle
    /\ tb = reset_lines(TbNone)
    /\ hw \in { [h EXCEPT !.note.stuck = TRUE] : h \in HwPowerOn }
    /\ pc = "reset_hold"
    /\ wait = 15
    /\ rval = << >>
    /\ last = LastNone
    /\ trace = << >>
    /\ sc \in { [ScNone EXCEPT !.pos = "setup", !.test = t.test, !.arg = t.arg,
                               !.prog = t.prog] : t \in StuckTests }

StuckNext ==
    \/ Tick
    \/ ResetRelease
    \/ Enable
    \/ ScriptStart
    \/ WriteDeassert
    \/ WriteReturn
    \/ ReadSample
    \/ ReadPulse
    \/ ReadRelease
    \/ ReadReturn
    \/ ReadFastSample
    \/ ReadFastReturn
    \/ AwaitDone
    \/ RunWrite
    \/ RunRead
    \/ RunReadFast
    \/ RunCycles
    \/ RunFor
    \/ RunBreak
    \/ RunLoop
    \/ RunAssert

SpecStuck == StuckInit /\ [][StuckNext]_vars

-----------------------------------------------------------------------------
(* SpecTime: the tests of the watchdog and of the RTC, with the time base. *)
(* A test starts where setup() ends.  After the reset of setup() the time  *)
(* base is 6 clocks into its first microsecond; the other phases are those *)
(* of a device that has run for longer, up to the last clocks of a second. *)

\* wait_us, test_peripherals.py:184-186
wait_us(n) == StCycles(TicksPerUs * n)

\* test_wdt_enable_irreversible, variant whose second write reloads
test_wdt_enable_irreversible_m ==
    << StWrite(PERI_WDT, 5000),
       StCycles(5),
       StReadFast(PERI_WDT),
       StAssertNonzero,
       StWrite(PERI_WDT, 1),
       wait_us(5),
       StReadFast(PERI_WDT),
       StProbeRst,
       StAssertAlive >>

\* test_wdt_enable_irreversible, test_peripherals.py:443-457
test_wdt_enable_irreversible ==
    << StWrite(PERI_WDT, 5000),
       StCycles(5),
       StReadFast(PERI_WDT),
       StAssertNonzero,
       StWrite(PERI_WDT, 0),
       wait_us(5),
       StReadFast(PERI_WDT),
       StProbeRst,
       StAssertAlive >>

\* kicks per test_wdt_random_kick, test_peripherals.py:470
NumKicks == 5

\* test_wdt_random_kick, test_peripherals.py:466-480, with the kick values
\* of line 475 in kicks
test_wdt_random_kick(kicks) ==
    << StWrite(PERI_WDT, 100), StCycles(5) >>
    \o Flatten([i \in 1..NumKicks |->
                  << wait_us(30), StProbeRst, StAssertEq(WInt(1)),
                     StWrite(PERI_WDT, kicks[i]), StCycles(5) >>])
    \o << StProbeRst, StAssertEq(WInt(1)) >>

\* test_rtc_random_set_read, test_peripherals.py:519-533
test_rtc_random_set_read(init_val) ==
    << StWriteW(PERI_RTC, init_val),
       StCycles(5),
       StReadFast(PERI_RTC),
       StAssertEq(init_val),
       wait_us(100),
       StReadFast(PERI_RTC),
       StAssertEq(init_val) >>

\* test_rtc_write_priority, test_peripherals.py:542-553
test_rtc_write_priority(val_a, val_b) ==
    << StWrite(PERI_RTC, val_a),
       StCycles(2),
       StWrite(PERI_RTC, val_b),
       StCycles(2),
       StReadFast(PERI_RTC),
       StAssertEq(WInt(val_b)) >>

\* test_wdt_expiry_reset, test_peripherals.py:483-506 (expect_fail=True)
test_wdt_expiry_reset ==
    << StWrite(PERI_WDT, 20),
       wait_us(25),
       StCycles(5),
       StProbeRst,
       StAssertEq(<< >>),
       StCycles(50) >>

\* the values of line 475 the kicks are taken from
KickSamples ==
    { <<50, 50, 50, 50, 50>>, <<200, 200, 200, 200, 200>>, <<50, 200, 127, 51, 199>> }

\* the values of line 519 the RTC is set to
RtcSetSamples == { << >>, WInt(1), W32(43981, 4660), W32(65535, 65520) }

\* us_count and the clock within the microsecond when the test starts
WdtPhases == { <<0, k>> : k \in {0, 6, 12, 13, 14, 15, 16, 22, 23, 24} }

\* test_sysinfo_format, test_peripherals.py:723-730
test_sysinfo_format ==
    << StReadFast(PERI_SYSINFO),
       StAssertField(0, 255, 16),
       StAssertField(8, 255, 1),
       StAssertField(16, 65535, 0) >>

\* test_sysinfo_pps_count, variant that never takes the 1PPS input back
test_sysinfo_pps_count_m(n_pulses) ==
    Flatten([i \in 1..n_pulses |->
                << StUiSet(16), StCycles(5), StUiSet(16), StCycles(5) >>])
    \o << StReadFast(PERI_SYSINFO), StAssertField(16, 65535, n_pulses) >>

\* test_sysinfo_pps_count, test_peripherals.py:739-751, with the number of
\* pulses of line 739 in n_pulses
test_sysinfo_pps_count(n_pulses) ==
    Flatten([i \in 1..n_pulses |->
                << StUiSet(16), StCycles(5), StUiClear(16), StCycles(5) >>])
    \o << StReadFast(PERI_SYSINFO), StAssertField(16, 65535, n_pulses) >>

\* reads of test_cross_peripheral_random, test_peripherals.py:931
NumCrossReads == 50

\* line 930
CrossPeris == << PERI_GPIO_OUT_SEL, PERI_GPIO_OUT, PERI_RTC, PERI_TIMER, PERI_SYSINFO >>

\* test_cross_peripheral_random, test_peripherals.py:916-938, with the
\* choices of line 932 in choice (indices into CrossPeris)
test_cross_peripheral_random(choice) ==
    << StWrite(PERI_GPIO_OUT_SEL, 255),
       StWrite(PERI_GPIO_OUT, 165),
       StWrite(PERI_RTC, 12345),
       StWrite(PERI_TIMER, 50000),
       StCycles(5) >>
    \o Flatten([i \in 1..NumCrossReads |->
                  LET p == CrossPeris[choice[i]]
                  IN  IF p = PERI_GPIO_OUT_SEL
                      THEN << StReadFast(p), StAssertField(0, 255, 255) >>
                      ELSE IF p = PERI_SYSINFO
                      THEN << StReadFast(p), StAssertField(0, 65535, 272) >>
                      ELSE << StReadFast(p) >>])

\* choices of line 932: peripheral j first, then every k-th of the list
CrossChoices ==
    { [i \in 1..NumCrossReads |-> ((j + i * k) % 5) + 1] : j \in 0..4, k \in 0..2 }

\* numbers of pulses of line 739
PulseCounts == 3..10

\* the tests that are run from reset
ResetTests ==
    { Test("test_sysinfo_format", << >>, test_sysinfo_format) }
    \cup { Test("test_sysinfo_pps_count", <<n>>, test_sysinfo_pps_count(n)) :
              n \in PulseCounts }
    \cup { Test("test_cross_peripheral_random", c, test_cross_peripheral_random(c)) :
              c \in CrossChoices }

TimeTests ==
    { Test("test_wdt_enable_irreversible", << >>, test_wdt_enable_irreversible),
      Test("test_wdt_expiry_reset", << >>, test_wdt_expiry_reset) }
    \cup { Test("test_wdt_random_kick", k, test_wdt_random_kick(k)) : k \in KickSamples }

\* the tests of the RTC, run from reset
RtcTests ==
    { Test("test_rtc_random_set_read", <<v>>, test_rtc_random_set_read(v)) :
         v \in RtcSetSamples }
    \cup { Test("test_rtc_write_priority", a, test_rtc_write_priority(a[1], a[2])) :
              a \in { <<100, 300>>, <<200, 400>> } }

\* the end of setup, test_peripherals.py:175-181, for the tests of the
\* watchdog: the reset has cleared the registers and the count of
\* microseconds; the clock within the first microsecond at which enable()
\* returns is any of WdtPhases
TimeInitSetup ==
    /\ tb = enable([reset_lines(TbNone) EXCEPT !.rst_n = 1])
    /\ pc = "enable"
    /\ wait = 0
    /\ sc \in { [ScNone EXCEPT !.pos = "setup", !.test = t.test, !.arg = t.arg,
                               !.prog = t.prog] : t \in TimeTests }
    /\ hw \in { [HwNone EXCEPT !.us_count = p[1], !.tick_cnt = p[2]] :
                  p \in WdtPhases }

\* reset_dut, lines 161-169, for the tests run from reset; for the tests of
\* the RTC the hardware is of either design, one in which a write to RTC
\* restarts the sub-second count and one in which it does not
TimeInitReset ==
    /\ tb = reset_lines(TbNone)
    /\ pc = "reset_hold"
    /\ wait = 15
    /\ sc \in { [ScNone EXCEPT !.pos = "setup", !.test = t.test, !.arg = t.arg,
                               !.prog = t.prog] : t \in ResetTests \cup RtcTests }
    /\ hw \in { [h EXCEPT !.note.rtc_clr = c] :
                  h \in HwPowerOn,
                  c \in IF sc.test \in {"test_rtc_random_set_read",
                                         "test_rtc_write_priority"}
                        THEN BOOLEAN ELSE {FALSE} }

TimeInit ==
    /\ fpc = "time"
    /\ CrcIdle /\ SealIdle /\ CpuIdle
    /\ rval = << >>
    /\ last = LastNone
    /\ trace = << >>
    /\ (TimeInitSetup \/ TimeInitReset)

\* a rising edge of the clock, time base included
TickTimed ==
    /\ wait > 0
    /\ hw' = HwTimeEdge(hw, tb)
    /\ wait' = wait - 1
    /\ trace' = IF InCall THEN Append(trace, tb) ELSE trace
    /\ last' = Observe(last, hw, hw', tb)
    /\ UNCHANGED <<tb, pc, rval, sc, fvars>>

\* int(dut.tb_rst_reg_n.value), lines 455, 472, 480, 502
RunProbeRst ==
    /\ At("probe_rst")
    /\ sc' = [sc EXCEPT !.ip = @ + 1, !.log = Append(@, WInt(HwRstRegN(hw, tb)))]
    /\ UNCHANGED <<tb, pc, wait, rval, last, trace, hw, fvars>>

\* dut.ui_in_base.value = ..., lines 743-746
RunUiIn ==
    /\ At("ui_in")
    /\ tb' = [tb EXCEPT !.ui_in_base =
                  IF Cur.kind = "set" THEN BitOr(@, Cur.n)
                  ELSE BitAnd(@, 255 - Cur.n)]
    /\ sc' = [sc EXCEPT !.ip = @ + 1]
    /\ UNCHANGED <<pc, wait, rval, last, trace, hw, fvars>>

TimeNext ==
    \/ TickTimed
    \/ ResetRelease
    \/ Enable
    \/ RunUiIn
    \/ ScriptStart
    \/ WriteDeassert
    \/ WriteReturn
    \/ ReadFastSample
    \/ ReadFastReturn
    \/ AwaitDone
    \/ RunWrite
    \/ RunReadFast
    \/ RunCycles
    \/ RunProbeRst
    \/ RunAssert

SpecTime == TimeInit /\ [][TimeNext]_vars

-----------------------------------------------------------------------------
\* the read data of the cycles of the running or last read() in which the
\* read strobe was on the lines: the eight of the window and the one of the
\* completion pulse
WindowSamples == SubSeq(last.win, 1, IF Len(last.win) < 9 THEN Len(last.win) ELSE 9)

\* C11: when a call of read() returns, the read data was the same in every
\* cycle of its read window as in the first, or else the test has failed: no
\* read() whose data changed inside its window returns a value to a test that
\* goes on.
C11_ReadWindowStable ==
    (last.op = "read" /\ last.done) =>
       \/ \A k \in 1..Len(WindowSamples) : WindowSamples[k] = WindowSamples[1]
       \/ sc.pos = "fail"

\* C12: whenever no call of write, read or read_fast is in flight (in
\* reset_dut, after enable, and between and after the calls, in whatever
\* order the scenario and the environment make them) the strobes and the
\* completion line are released: tb_write_n = 0b11, tb_read_n = 0b11,
\* tb_read_complete = 0.
C12_IdleLinesReleased ==
    ~InCall => (tb.write_n = 3 /\ tb.read_n = 3 /\ tb.read_complete = 0)

\* C12 witness: a write, a read_fast of the environment and three reads have
\* returned, and the lines are released.
C12_Witness ==
    /\ pc = "idle" /\ last.done /\ last.op = "read"
    /\ sc.nread = 3 /\ sc.peeks >= 1
    /\ tb.override = 1
    /\ tb.write_n = 3 /\ tb.read_n = 3 /\ tb.read_complete = 0

\* the tests that write init and then the bytes of sc.arg to CRC16, each
\* byte when the engine is free again
CrcFeedTests ==
    {"test_crc_random_data", "test_crc_stress_rapid_fire", "test_crc_init_during_busy"}

\* C14: after init (bit 8) and then the bytes of b have been written to CRC16,
\* each one when the engine was no longer busy (after 10 cycles, or after a
\* poll saw busy = 0), the register reads crc16_modbus(b) in bits 15..0 and 0
\* in bit 16, and the engine holds that value and is free; no assert of the
\* CRC tests fails.
C14_CrcRegisterIsModbus ==
    /\ sc.test \in CrcFeedTests \cup {"test_crc_known_vectors"} => sc.pos # "fail"
    /\ (sc.test \in CrcFeedTests /\ ScriptDone) =>
          /\ sc.log[Len(sc.log)] = WInt(crc16_modbus(sc.arg))
          /\ hw.crc_acc = crc16_modbus(sc.arg)
          /\ ~HwCrcBusy(hw)

\* C14 witness: test_crc_stress_rapid_fire has fed 0x55, 0xFF, polling after
\* each byte, and has read their CRC with busy = 0.
C14_Witness ==
    /\ sc.test = "test_crc_stress_rapid_fire" /\ sc.arg = <<85, 255>>
    /\ ScriptDone
    /\ sc.log[Len(sc.log)] = WInt(crc16_modbus(<<85, 255>>))
    /\ WBit(sc.log[Len(sc.log)], 16) = 0
    /\ hw.crc_acc # 65535

\* the bytes the test has written to CRC16 after its last init
BytesAfterLastInit == IF sc.test = "init_at_phase" THEN <<sc.arg[3]>> ELSE sc.arg

\* write() has put an init on CRC16 and has taken the strobe back
InitWritten ==
    /\ last.op = "write" /\ last.slot = PERI_CRC16 /\ WBit(last.data, 8) = 1
    /\ pc = "write_release"

BusyWord(acc) == WOr(WInt(acc), WShl(WInt(1), 16))

\* C16: a byte written to CRC16 keeps bit 16 of the read data at 1 for eight
\* clock cycles, the one after the edge of the write and the seven after it,
\* and at 0 from the ninth on; in the k-th of the eight the read data is the
\* accumulator after k shifts of 0xFFFF xor the byte, with busy = 1, and
\* afterwards crc16_modbus of the byte.  A read_fast of CRC16 returns the
\* accumulator with bit 16 set exactly when the engine works on a byte of the
\* bus or on the record of the seal; the read of test_seal_crc_arbitration,
\* taken while the seal is busy, returns busy = 1 and the test runs on.
C16_BusyEightCycles ==
    /\ (sc.test = "read_crc16_after_byte" /\ sc.ip = 4 /\ last.op = "write"
        /\ last.done) =>
          (WBit(last.win[1], 16) = 0 /\ WBit(last.win[2], 16) = 1)
    /\ (sc.test = "read_crc16_after_byte" /\ last.op = "read" /\ last.done) =>
          /\ \A k \in 1..7 :
                last.win[k] =
                   BusyWord(crc16_modbus_range8[BitXor(65535, sc.arg[1]), k])
          /\ \A k \in 8..10 : last.win[k] = WInt(crc16_modbus(sc.arg))
    /\ (last.op = "read_fast" /\ last.slot = PERI_CRC16 /\ pc = "fast_release"
        /\ wait = 1) =>
          /\ WTrunc(rval, 16) = WInt(hw.crc_acc)
          /\ WBit(rval, 16) = 1 <=> (hw.crc_bits > 0 \/ hw.busy)
          /\ WShr(rval, 17) = << >>
    /\ sc.test = "test_seal_crc_arbitration" =>
          /\ sc.pos # "fail"
          /\ ScriptDone => (Len(sc.log) = 1 /\ WBit(sc.log[1], 16) = 1)

\* C16 witness: test_seal_crc_arbitration has read CRC16 while the seal was
\* busy with its record, and the word shows busy = 1 and an accumulator that
\* is neither 0xFFFF nor 0.
C16_Witness ==
    /\ sc.test = "test_seal_crc_arbitration"
    /\ last.op = "read_fast" /\ last.slot = PERI_CRC16 /\ last.done
    /\ hw.busy /\ hw.crc_bits = 0
    /\ WBit(last.ret, 16) = 1
    /\ WTrunc(last.ret, 16) \notin {WInt(65535), << >>}

\* C17: in every state the peripherals reach (in reset, idle, with a byte in
\* the CRC engine, with the seal busy, with registers written) the read data
\* for each of the slots 16..31 is 0xFFFFFFFF with no X or Z bit; every read
\* or read_fast of such a slot returns 0xFFFFFFFF, and no assert of
\* test_address_decode_all_slots or of the probes between the statements of
\* the other tests fails.
C17_UnmappedAllOnes ==
    /\ \A slot \in 16..31 :
          LET rdata == HwRdata(hw, read_fast_assert(tb, slot))
          IN  rdata.xz = << >> /\ safe_int(rdata) = W32(65535, 65535)
    /\ (last.op \in {"read", "read_fast"} /\ last.slot >= 16 /\ last.done) =>
          last.ret = W32(65535, 65535)
    /\ sc.test \in {"test_address_decode_all_slots", "probes"} => sc.pos # "fail"
    /\ (sc.test = "test_address_decode_all_slots" /\ ScriptDone) =>
          /\ Len(sc.log) = 32
          /\ \A k \in 17..32 : sc.log[k] = W32(65535, 65535)

\* C17 witness: a read_fast of slot 31 has returned 0xFFFFFFFF while the CRC
\* engine was in the middle of a byte.
C17_Witness ==
    /\ sc.test = "probes"
    /\ last.op = "read_fast" /\ last.slot = 31 /\ last.done
    /\ hw.crc_bits > 0
    /\ last.ret = W32(65535, 65535)

\* C18: once a non-zero write has armed the watchdog, whatever is written
\* later, zero included, it is counting with remaining > 0 or it has fired
\* the reset; test_wdt_enable_irreversible passes.
C18_WdtArmedIrreversible ==
    /\ hw.note.wdt_armed =>
          (hw.wdt_en /\ hw.wdt_rem > 0) \/ (hw.note.wdt_fired /\ ~hw.wdt_en)
    /\ sc.test = "test_wdt_enable_irreversible" => sc.pos # "fail"

\* the test has written 0 to the armed watchdog and read it 5 us later: it
\* is still counting
C18_Witness ==
    /\ sc.test = "test_wdt_enable_irreversible" /\ ScriptDone
    /\ hw.note.wdt_armed /\ hw.wdt_en /\ ~hw.note.wdt_fired
    /\ sc.log[2] # << >> /\ WVal(sc.log[2]) < WVal(sc.log[1])

\* C21: every read_fast of SYSINFO returns version 0x10 in bits 7..0 and
\* chip_id 0x01 in bits 15..8, in test_cross_peripheral_random between reads
\* of GPIO, RTC and TIMER as well; the pps_count it returns is 0 after reset
\* and the number of pulses after the pulses of test_sysinfo_pps_count; the
\* three tests pass.
C21_SysinfoFormat ==
    /\ (last.op = "read_fast" /\ last.slot = PERI_SYSINFO /\ last.done) =>
          /\ WVal(WAnd(last.ret, WInt(255))) = SysVersion
          /\ WVal(WAnd(WShr(last.ret, 8), WInt(255))) = SysChipId
          /\ sc.test = "test_sysinfo_pps_count" =>
                WVal(WShr(last.ret, 16)) = sc.arg[1]
          /\ sc.test # "test_sysinfo_pps_count" => WShr(last.ret, 16) = << >>
    /\ sc.test \in {"test_sysinfo_format", "test_sysinfo_pps_count",
                     "test_cross_peripheral_random"} => sc.pos # "fail"
    /\ (sc.test = "test_sysinfo_pps_count" /\ sc.pos = "run") =>
          hw.pps_count <= sc.arg[1]

\* ten pulses were driven and SYSINFO has been read: pps_count is 10
C21_Witness ==
    /\ sc.test = "test_sysinfo_pps_count" /\ ScriptDone
    /\ sc.arg = <<10>>
    /\ WShr(last.ret, 16) = WInt(10)
    /\ WAnd(last.ret, WInt(65535)) = WInt(272)

\* C22: in test_gpio_readback_consistency, with GPIO_OUT_SEL = 0xFF and
\* GPIO_OUT = V written, the read_fast of GPIO_OUT taken 1 to 50 clocks
\* later returns V in its low 8 bits, for every V in 0..255; the pins show V
\* at every clock in between, and no assert of the test fails.
C22_GpioReadback ==
    sc.test = "test_gpio_readback_consistency" =>
        /\ sc.pos # "fail"
        /\ \A k \in 1..Len(sc.log) : WVal(WAnd(sc.log[k], WInt(255))) = sc.arg[k]
        /\ (sc.pos = "run" /\ sc.ip <= Len(sc.prog) /\ Cur.op \in {"cycles", "read_fast"}) =>
              /\ hw.gpio_sel = 255
              /\ WVal(WAnd(safe_int(HwRdata(hw, read_fast_assert(tb, PERI_GPIO_OUT))),
                            WInt(255))) = sc.arg[Len(sc.log) + 1]

\* V = 0xFF was written and read back 50 clocks later
C22_Witness ==
    /\ sc.test = "test_gpio_readback_consistency" /\ ScriptDone
    /\ Len(sc.log) = NumRounds
    /\ \E k \in 1..NumRounds :
          /\ sc.arg[k] = 255 /\ WAnd(sc.log[k], WInt(255)) = WInt(255)
          /\ sc.prog[5 * k - 2].n = 50

\* the test has left a busy poll because its range was used up, and the
\* engine is still busy
PollExhausted ==
    /\ sc.ip > 1 /\ sc.ip - 1 <= Len(sc.prog)
    /\ sc.prog[sc.ip - 1].op = "loop"
    /\ sc.polls >= sc.prog[sc.ip - 1].n[2]
    /\ HwCrcBusy(hw)

\* C23: a test whose busy poll has used up its retry bound with the engine
\* still busy reports the failure there: it does not go on to its next
\* statement.
C23_PollBoundReported == ~(PollExhausted /\ sc.pos = "run")

-----------------------------------------------------------------------------
(* The I2C scenarios.  The I2C master and the slave model are outside the  *)
(* tests: the word I2C_DATA shows is an input.  The statements of          *)
(* test_e2e_i2c_sht31 that are not calls, and the log lines of the tests   *)
(* of test_peripherals.py, are the actions below; sc.observed is           *)
(* read_data.                                                              *)

\* test_peripheral_e2e.py:41
OFF_I2C_DATA == 24

\* test_peripheral_e2e.py:42
OFF_I2C_CONFIG == 28

\* the bytes of the slave model, test_peripheral_e2e.py:505
expected_data == <<99, 50, 161, 140, 164, 219>>

\* a byte of read_data that was not valid, test_peripheral_e2e.py:526
None == -1

\* the mutant: the NACK of the address phase is never seen
miss_ack_m(val) == 0

\* miss_ack = (val >> 9) & 1, test_peripheral_e2e.py:466,499
miss_ack(val) == WVal(WAnd(WShr(val, 9), WInt(1)))

\* rx_valid = (val >> 10) & 1, test_peripheral_e2e.py:517
rx_valid(val) == WVal(WAnd(WShr(val, 10), WInt(1)))

\* rx_byte = val & 0xFF, test_peripheral_e2e.py:518
rx_byte(val) == WVal(WAnd(val, WInt(255)))

\* status = await bus.read_fast(slot) in a wait loop: the word replaces the
\* one of the pass before, test_peripherals.py:791, 832
StReadFastPoll(slot) == Stmt("read_fast", "poll", slot, << >>, 0)

\* if miss_ack: warning; return, test_peripheral_e2e.py:471-474, 500-502
StReturnIfNack == Stmt("return_if_nack", "", 0, << >>, 0)

\* lines 517-526 of the read loop
StCollect == Stmt("collect", "", 0, << >>, 0)

\* lines 529-537
StVerify == Stmt("i2c_verify", "", 0, << >>, 0)

\* test_peripherals.py:837-838
StLogNack == Stmt("log_nack", "", 0, << >>, 0)

\* test_peripherals.py:797
StLogStatus == Stmt("log_nack", "status", 0, << >>, 0)

\* the words I2C_DATA can show after an address phase: acknowledged, not
\* acknowledged, still busy, busy and not acknowledged
I2cStatusWords == { << >>, WInt(512), WInt(256), WInt(768) }

\* after data byte i: the byte of the slave model, another byte, no byte
I2cByteWords(i) ==
    { WInt(1024 + expected_data[i]),
      WInt(1024 + ((expected_data[i] + 1) % 256)),
      WInt(expected_data[i]) }

\* while the tests of test_peripherals.py poll: bit 11 set, bit 10 set,
\* bit 8 set, bits 9 and 8 set, none
I2cPollWords == { WInt(2048), WInt(1024), WInt(256), WInt(768), << >> }

\* range(2000), test_peripherals.py:789, 830
NackPollBudget == 2000

\* test_i2c_nack_detection, test_peripherals.py:816-838
test_i2c_nack_detection ==
    << StWrite(PERI_GPIO_OUT_SEL, 0),
       StWrite(PERI_I2C_CONFIG, 2),
       StCycles(2),
       StWrite(PERI_I2C_DATA, 4096 + 2048 + 512 + 238),
       StFor,
       StCycles(10),
       StReadFastPoll(PERI_I2C_DATA),
       StBreakIfClear(2048, 2),
       StLoop(3, NackPollBudget, "lenient"),
       StLogNack >>

\* test_i2c_sht31_read, test_peripherals.py:759-797
test_i2c_sht31_read ==
    << StWrite(PERI_GPIO_OUT_SEL, 0),
       StCycles(2),
       StWrite(PERI_I2C_CONFIG, 2),
       StCycles(2),
       StWrite(PERI_I2C_DATA, 4096 + 512 + 136),
       StCycles(5),
       StFor,
       StReadFastPoll(PERI_I2C_DATA),
       StBreakIfClear(2048, 3),
       StCycles(10),
       StLoop(3, NackPollBudget, "lenient"),
       StLogStatus >>

\* the warning and the return, or the next statement
RunReturnIfNack ==
    /\ At("return_if_nack")
    /\ sc' = IF miss_ack(sc.log[Len(sc.log)]) # 0
             THEN [sc EXCEPT !.ip = Len(sc.prog) + 1,
                             !.issued = Append(@, [op |-> "warning", imm |-> 0,
                                                   by |-> "log", call |-> sc.ip])]
             ELSE [sc EXCEPT !.ip = @ + 1]
    /\ UNCHANGED <<tb, pc, wait, rval, last, trace, hw, fvars>>

\* the body of the read loop after its mmio_read, test_peripheral_e2e.py:
\* 515-526: a byte with rx_valid is kept; for one without, the warning of
\* line 525 is logged, None is kept and the test goes on
RunCollect ==
    /\ At("collect")
    /\ LET val == sc.log[Len(sc.log)]
       IN  sc' = IF rx_valid(val) # 0
                 THEN [sc EXCEPT !.ip = @ + 1,
                                 !.observed = Append(@, rx_byte(val))]
                 ELSE [sc EXCEPT !.ip = @ + 1,
                                 !.observed = Append(@, None),
                                 !.issued = Append(@, [op |-> "warning", imm |-> 0,
                                                       by |-> "log", call |-> sc.ip])]
    /\ UNCHANGED <<tb, pc, wait, rval, last, trace, hw, fvars>>

\* if all(r is not None for r in read_data): assert got == exp for each byte
i2c_verify(read_data) ==
    (\A i \in 1..Len(read_data) : read_data[i] # None)
       => \A i \in 1..Len(read_data) : read_data[i] = expected_data[i]

RunI2cVerify ==
    /\ At("i2c_verify")
    /\ sc' = IF i2c_verify(sc.observed)
             THEN [sc EXCEPT !.ip = @ + 1]
             ELSE [sc EXCEPT !.pos = "fail"]
    /\ UNCHANGED <<tb, pc, wait, rval, last, trace, hw, fvars>>

\* miss_ack = (status >> 10) & 1 and the log line of line 838, or the log
\* line of line 797
RunLogNack ==
    /\ At("log_nack")
    /\ sc' = [sc EXCEPT !.ip = @ + 1,
                        !.issued = Append(@, [op |-> "info", slot |-> 0,
                                              data |-> IF Cur.kind = "status"
                                                       THEN sc.log[Len(sc.log)]
                                                       ELSE WAnd(WShr(sc.log[Len(sc.log)], 10),
                                                                 WInt(1))])]
    /\ UNCHANGED <<tb, pc, wait, rval, last, trace, hw, fvars>>

-----------------------------------------------------------------------------
(* SpecNops: a test of the CPU path with its filler regions.  cpu.line is  *)
(* the instruction offered at the fetch interface (NoInstr when none),     *)
(* cpu.stream the instructions the CPU has fetched, cpu.queue what the     *)
(* running call of the test has still to send, cpu.filler the state of the *)
(* NOP feeder.  send_instr, read_reg, start_nops and stop_nops are the     *)
(* functions the test file imports.                                        *)

\* NOPs one filler region feeds at most
MaxNops == 3

\* test_peripheral_e2e.py:45
OFF_TIMER == 48

\* no instruction is offered
NoInstr == CpuNone.line

\* an instruction of the test, sent by statement number call
Instr(op, imm, call) == [op |-> op, imm |-> imm, by |-> "test", call |-> call]

\* the NOP of the feeder: ADDI x0, x0, 0
FillerNop == [op |-> "ADDI", imm |-> 0, by |-> "nops", call |-> 0]

\* mmio_write_small, lines 68-71: ADDI x1, x0, val & 0xFFF; SW x1, offset(tp)
mmio_write_small(offset, val, call) ==
    << Instr("ADDI", BitAnd(val, 4095), call), Instr("SW", offset, call) >>

\* mmio_read, lines 90-93: LW x1, offset(tp); read_reg(x1)
mmio_read(offset, call) ==
    << Instr("LW", offset, call), Instr("READ_REG", 1, call) >>

\* resync_cpu, lines 85-87: pass
resync_cpu(call) == << >>

StMmioWriteSmall(offset, val) == Stmt("mmio_write_small", "", offset, << >>, val)

StMmioRead(offset) == Stmt("mmio_read", "", offset, << >>, 0)

StStartNops == Stmt("start_nops", "", 0, << >>, 0)

StTimer(us) == Stmt("timer", "", 0, << >>, us)

StStopNops == Stmt("stop_nops", "", 0, << >>, 0)

StResyncCpu == Stmt("resync_cpu", "", 0, << >>, 0)

StAssertRange(lo, hi) == Stmt("assert_range", "", 0, << >>, <<lo, hi>>)

\* the mutant: the test reads without stopping the feeder
test_e2e_timer_countdown_m ==
    << StMmioWriteSmall(OFF_TIMER, 100),
       StStartNops, StTimer(50), StResyncCpu,
       StMmioRead(OFF_TIMER), StAssertRange(20, 70),
       StStartNops, StTimer(80), StResyncCpu,
       StMmioRead(OFF_TIMER), StAssertEq(<< >>) >>

\* test_e2e_timer_countdown, test_peripheral_e2e.py:220-250
test_e2e_timer_countdown ==
    << StMmioWriteSmall(OFF_TIMER, 100),
       StStartNops, StTimer(50), StStopNops, StResyncCpu,
       StMmioRead(OFF_TIMER), StAssertRange(20, 70),
       StStartNops, StTimer(80), StStopNops, StResyncCpu,
       StMmioRead(OFF_TIMER), StAssertEq(<< >>) >>

\* the remaining count a read of TIMER can return
TimerAnswers == { << >>, WInt(19), WInt(50), WInt(71) }

\* the variables the CPU path leaves alone
nvars == <<data, crc_tp, crc_e2e, crc_gold, seal_in, seal_out, cpu_in, fpc,
           tb, pc, wait, rval, last, trace, hw>>

\* init_test has returned
NopsInit ==
    /\ fpc = "nops"
    /\ CrcIdle /\ SealIdle
    /\ cpu_in = CpuInNone
    /\ cpu = CpuNone
    /\ tb = E2eLines /\ hw = HwNone
    /\ pc = "idle"
    /\ wait = 0
    /\ rval = << >>
    /\ last = LastNone
    /\ trace = << >>
    /\ sc = [ScNone EXCEPT !.pos = "run", !.ip = 1, !.test = "test_e2e_timer_countdown",
                           !.prog = test_e2e_timer_countdown]

RunMmioWriteSmall ==
    /\ At("mmio_write_small")
    /\ cpu' = [cpu EXCEPT !.queue = mmio_write_small(Cur.slot, Cur.n, sc.ip)]
    /\ sc' = [sc EXCEPT !.pos = "send"]
    /\ UNCHANGED nvars

RunMmioRead ==
    /\ At("mmio_read")
    /\ cpu' = [cpu EXCEPT !.queue = mmio_read(Cur.slot, sc.ip)]
    /\ sc' = [sc EXCEPT !.pos = "send"]
    /\ UNCHANGED nvars

\* send_instr of the test: the next instruction of the call is offered
TestSend ==
    /\ sc.pos = "send"
    /\ cpu.line = NoInstr
    /\ cpu.queue # << >>
    /\ cpu' = [cpu EXCEPT !.line = Head(cpu.queue), !.queue = Tail(@)]
    /\ sc' = [sc EXCEPT !.issued = Append(@, Head(cpu.queue))]
    /\ UNCHANGED nvars

\* the CPU takes the instruction offered
CpuFetch ==
    /\ cpu.line # NoInstr
    /\ cpu' = [cpu EXCEPT !.stream = Append(@, cpu.line), !.line = NoInstr]
    /\ UNCHANGED <<sc, nvars>>

\* the call returns; mmio_read returns the register
TestCallReturn ==
    /\ sc.pos = "send"
    /\ cpu.queue = << >>
    /\ cpu.line.by # "test"
    /\ IF Cur.op = "mmio_read"
       THEN \E v \in TimerAnswers :
               sc' = [sc EXCEPT !.pos = "run", !.ip = @ + 1, !.log = Append(@, v)]
       ELSE sc' = [sc EXCEPT !.pos = "run", !.ip = @ + 1]
    /\ UNCHANGED <<cpu, nvars>>

\* start_nops(dut): the feeder is started and the test goes on
RunStartNops ==
    /\ At("start_nops")
    /\ cpu' = [cpu EXCEPT !.filler = "on", !.fed = 0]
    /\ sc' = [sc EXCEPT !.ip = @ + 1]
    /\ UNCHANGED nvars

\* the feeder sends a NOP
FeedNop ==
    /\ cpu.filler = "on"
    /\ cpu.line = NoInstr
    /\ cpu.fed < MaxNops
    /\ cpu' = [cpu EXCEPT !.line = FillerNop, !.fed = @ + 1]
    /\ UNCHANGED <<sc, nvars>>

\* await Timer(us): the test waits
RunTimer ==
    /\ At("timer")
    /\ sc' = [sc EXCEPT !.pos = "timer"]
    /\ UNCHANGED <<cpu, nvars>>

\* the Timer fires, wherever the feeder is
TimerExpire ==
    /\ sc.pos = "timer"
    /\ sc' = [sc EXCEPT !.pos = "run", !.ip = @ + 1]
    /\ UNCHANGED <<cpu, nvars>>

\* await stop_nops(): the feeder is told to stop
RunStopNops ==
    /\ At("stop_nops")
    /\ cpu' = [cpu EXCEPT !.filler = "stop"]
    /\ sc' = [sc EXCEPT !.pos = "stopping"]
    /\ UNCHANGED nvars

\* the feeder has ended, its last NOP fetched: stop_nops returns
StopReturn ==
    /\ sc.pos = "stopping"
    /\ cpu.line = NoInstr
    /\ cpu' = [cpu EXCEPT !.filler = "off", !.mark = Len(cpu.stream)]
    /\ sc' = [sc EXCEPT !.pos = "run", !.ip = @ + 1]
    /\ UNCHANGED nvars

\* await resync_cpu(dut)
RunResyncCpu ==
    /\ At("resync_cpu")
    /\ cpu' = [cpu EXCEPT !.queue = resync_cpu(sc.ip)]
    /\ sc' = [sc EXCEPT !.pos = "send"]
    /\ UNCHANGED nvars

\* assert lo <= val <= hi, line 239
RunAssertRange ==
    /\ At("assert_range")
    /\ LET val == WVal(sc.log[Len(sc.log)])
       IN  sc' = IF Cur.n[1] <= val /\ val <= Cur.n[2]
                 THEN [sc EXCEPT !.ip = @ + 1]
                 ELSE [sc EXCEPT !.pos = "fail"]
    /\ UNCHANGED <<cpu, nvars>>

NopsNext ==
    \/ RunMmioWriteSmall
    \/ RunMmioRead
    \/ TestSend
    \/ CpuFetch
    \/ TestCallReturn
    \/ RunStartNops
    \/ FeedNop
    \/ RunTimer
    \/ TimerExpire
    \/ RunStopNops
    \/ StopReturn
    \/ RunResyncCpu
    \/ RunAssertRange
    \/ RunAssert

SpecNops == NopsInit /\ [][NopsNext]_vars

\* the instructions statement k of the test sends
StmtInstrs(k) ==
    LET o == sc.prog[k]
    IN  IF o.op = "mmio_write_small" THEN mmio_write_small(o.slot, o.n, k)
        ELSE IF o.op = "mmio_read" THEN mmio_read(o.slot, k)
        ELSE IF o.op = "resync_cpu" THEN resync_cpu(k)
        ELSE << >>

\* the instructions of statements 1..k, in order
ProgInstrs[k \in 0..20] ==
    IF k = 0 THEN << >> ELSE ProgInstrs[k - 1] \o StmtInstrs(k)

IsTestInstr(e) == e.by = "test"

\* the instructions of the test that the CPU has fetched or is offered
TestStream ==
    SelectSeq(cpu.stream, IsTestInstr)
       \o (IF cpu.line.by = "test" THEN <<cpu.line>> ELSE << >>)

\* C26: the filler region can be stopped anywhere: the CPU receives the
\* instructions of the MMIO calls exactly and in order, no NOP enters the
\* stream between the return of stop_nops and the next start_nops or inside
\* an MMIO call, and resync_cpu adds no instruction.
C26_FillerStopsCleanly ==
    /\ TestStream = sc.issued
    /\ sc.pos = "run" => sc.issued = ProgInstrs[sc.ip - 1]
    /\ cpu.filler = "off" =>
          /\ cpu.line.by # "nops"
          /\ \A k \in 1..Len(cpu.stream) : k > cpu.mark => cpu.stream[k].by = "test"
    /\ \A k \in 2..(Len(cpu.stream) - 1) :
          cpu.stream[k].by = "nops" =>
             ~(/\ cpu.stream[k - 1].by = "test" /\ cpu.stream[k + 1].by = "test"
               /\ cpu.stream[k - 1].call = cpu.stream[k + 1].call)

\* stop_nops was called while the third NOP was on its way; it returned
\* after that NOP, and the read of TIMER followed at once
C26_Witness ==
    /\ sc.pos = "run" /\ sc.ip = 7
    /\ cpu.mark = 5
    /\ Len(cpu.stream) = 7
    /\ cpu.stream[5] = FillerNop
    /\ cpu.stream[6] = Instr("LW", OFF_TIMER, 6)
    /\ cpu.stream[7] = Instr("READ_REG", 1, 6)

\* the words the three-phase read of SEAL_DATA returns for the record held
SealReadWords(h) ==
    << h.sealed_value, SealWord2(h.sealed_sid, h.sealed_mono),
       SealWord3(h.sealed_mono, h.sealed_crc) >>

\* the lines carry a write to slot
WriteStrobe(t, slot) ==
    t.override = 1 /\ t.write_n # 3 /\ t.addr >= 134217728 /\ HwSlot(t.addr) = slot

\* the record of trial k of test_seal_random_data_crc: sensor_id 0, the
\* payload, monotonic_count k - 1 and their CRC
TrialWords(k) ==
    LET mono == WInt(k - 1)
    IN  << sc.arg[k], SealWord2(0, mono),
           SealWord3(mono, crc16_modbus(seal_bytes_peripherals(0, sc.arg[k], mono))) >>

\* the test is at the assert of a trial, having made its three reads
AtTrialAssert ==
    /\ sc.test = "test_seal_random_data_crc"
    /\ At("assert")

\* C27: the committed record is immutable until the next commit: a write
\* to SEAL_DATA leaves the words of the three-phase read as they are, they
\* change only when a commit is accepted (value, sensor_id, monotonic_count)
\* and when that commit completes (crc16), and the three reads after each
\* commit return the record of that commit.
C27_SealRecordImmutable ==
    /\ [][ tb.rst_n = 1 =>
             /\ (WriteStrobe(tb, PERI_SEAL_DATA) /\ ~hw.busy)
                   => SealReadWords(hw') = SealReadWords(hw)
             /\ SealReadWords(hw') # SealReadWords(hw) =>
                   \/ /\ WriteStrobe(tb, PERI_SEAL_CTRL) /\ WBit(tb.wdata, 1) = 1
                      /\ ~hw.busy /\ hw'.busy
                      /\ hw'.sealed_value = hw.seal_data
                      /\ hw'.sealed_mono = hw.mono_count
                      /\ hw'.sealed_crc = hw.sealed_crc
                   \/ /\ hw.busy /\ ~hw'.busy
                      /\ hw'.sealed_value = hw.sealed_value
                      /\ hw'.sealed_sid = hw.sealed_sid
                      /\ hw'.sealed_mono = hw.sealed_mono ]_vars
    /\ [](AtTrialAssert =>
             SubSeq(sc.log, Len(sc.log) - 2, Len(sc.log)) = TrialWords(sc.ip \div 12))

\* the payload of the second trial has been written, not yet committed: the
\* record is still that of the first trial
C27_Witness ==
    /\ sc.test = "test_seal_random_data_crc"
    /\ sc.pos = "run" /\ sc.ip = 14
    /\ hw.seal_data = sc.arg[2]
    /\ hw.seal_data # hw.sealed_value
    /\ ~hw.busy
    /\ hw.mono_count = WInt(1)
    /\ SealReadWords(hw) = SubSeq(sc.log, Len(sc.log) - 2, Len(sc.log))

-----------------------------------------------------------------------------
(* SpecSmall: mmio_write_small, test_peripheral_e2e.py:68-71, on every     *)
(* 12-bit val and on some wider ones.  The ADDI is built with the          *)
(* immediate val & 0xFFF; the encoder takes a signed immediate (line 80).  *)

\* the immediates InstructionADDI takes: signed, 12 bits
Imm12 == -2048..2047

\* vals wider than 12 bits
WideSmallVals == {4096, 6144, 65535}

SmallOffsets == {OFF_I2C_DATA, OFF_I2C_CONFIG, OFF_TIMER}

SmallInit ==
    /\ fpc = "small"
    /\ cpu_in \in { [offset |-> o, val |-> WInt(v)] :
                      o \in SmallOffsets, v \in (0..4095) \cup WideSmallVals }
    /\ cpu = CpuNone
    /\ CrcIdle
    /\ SealIdle
    /\ BusOff

\* line 70: the ADDI is encoded and sent, or the encoder refuses the
\* immediate and the call ends with its exception
SmallSendADDI ==
    /\ fpc = "small"
    /\ LET ins == mmio_write_small(cpu_in.offset, WVal(cpu_in.val), 0)[1]
       IN  IF ins.imm \in Imm12
           THEN /\ cpu' = [cpu EXCEPT !.stream = Append(@, ins),
                                      !.x1 = ExecADDI(<< >>, ins.imm)]
                /\ fpc' = "small_sw"
           ELSE /\ cpu' = cpu
                /\ fpc' = "small_raise"
    /\ UNCHANGED <<data, crc_tp, crc_e2e, crc_gold, seal_in, seal_out, cpu_in, bvars>>

\* line 71
SmallSendSW ==
    /\ fpc = "small_sw"
    /\ LET ins == mmio_write_small(cpu_in.offset, WVal(cpu_in.val), 0)[2]
       IN  cpu' = [cpu EXCEPT !.stream = Append(@, ins),
                              !.store = <<ins.imm, cpu.x1>>]
    /\ fpc' = "small_done"
    /\ UNCHANGED <<data, crc_tp, crc_e2e, crc_gold, seal_in, seal_out, cpu_in, bvars>>

SmallNext == SmallSendADDI \/ SmallSendSW

SpecSmall == SmallInit /\ [][SmallNext]_vars

\* the word a 12-bit pattern stands for: itself, or its sign extension
SignExtendPattern(v) == IF v < 2048 THEN WInt(v) ELSE W32(65535, 61440 + v)

\* C28: mmio_write_small of a 12-bit val ends with one ADDI and one store
\* sent, and the word stored at the offset is val for val in 0..0x7FF and
\* the sign extension of val for a pattern with bit 11 set.
C28_WriteSmallStores ==
    (fpc \in {"small_done", "small_raise"} /\ WVal(cpu_in.val) < 4096) =>
       /\ Len(cpu.stream) = 2
       /\ cpu.stream[1].op = "ADDI" /\ cpu.stream[2].op = "SW"
       /\ cpu.store = <<cpu_in.offset, SignExtendPattern(WVal(cpu_in.val))>>

-----------------------------------------------------------------------------
(* The module random.  The generator is a state [key, pos]: seed(x) puts   *)
(* it at the start of the stream of x, pos counts the 32-bit words taken   *)
(* from that stream.  The library's generator is not code of the           *)
(* repository: the words it yields for the seeds used here are tabulated,  *)
(* and getrandbits, _randbelow and randint take words from the table the   *)
(* way the library does.                                                   *)

\* random.seed(x)
seed(x) == [key |-> x, pos |-> 0]

\* the first 32-bit words of random.seed(42), each as 8 hexadecimal digits
MtWords42 ==
       "a3b1799d1c80317f06671ad1bdd640fb466852573eb13b90392456de23b8c1e9bc8960a91a3d1fa7ad3c2d6dbd9c66b3"
    \o "e465e1508b9d243416419f82972a84696c0311990822e8f307a0ca6e17fc695a37f8a88b3b8faa18815ef6d19a1de644"
    \o "06cb0fb38fadc1a632e70629b74d0fb1a65ed389b38a088c8b8148f66b65a6a4386ecbe072ff5d2a96da1dac47378190"
    \o "cf36d58bde8a774b01a9e71fc241330bce4a2bbd28df6ec4b2b9437a6c307511571aa8764722938927cd8130371ecd7b"
    \o "f50bea63c37459ee562b0f791a2a73ed17be31116142ea7d18c267975be6128ed8f56413580d7b719a8dca0343b7a3a6"
    \o "ce9ff57f0b1f9163bacfb3d0759cde6689463e851ff49b78f91e1d4cec1b8ca160e7a113142c3fe88d5288f14b0dbb41"
    \o "d453dd32a0ee89ae9e574f7ae2acf72fdc98d2c15c941cf093cd59bf3139d32cb45ed1f011ce5dd20bbb2599a9488d99"
    \o "3a578a8ec5e7ce8a4a15544dfc377a4c146d3f31daf61a263b982ef8ddd1dfb219db3ad0614ff3d7472947397412b293"
    \o "a2bc372fd58842de5d65a44129a3b2e95ec42e085af3055335a240aeab9099a44458a885b3aa7efeefc89849aefcfad8"
    \o "a5e5a5ab12476f579bf00273a28defe32bcfbe0188bd6407baa80dd43eabedcb29d4beef7656af726123fdf7451b4cf3"
    \o "fd5166e6ece66fa2a3d70628b02b61c48e9442393838b326af42e12f5304317fd7c524a5c4b032ccc6a7ee390e51f30d"
    \o "3aa2e4f9d261a7ab0837b8a3ce177b4e50c187fc66b2bc5b448aaa9e10f1bc813602f8ace9c349e0f16287e49132b63e"
    \o "e059a0eeb7c93acf508ebad7366eb16fa7cad4157fcd9eb1654821d0e27a984dea1fca65a491f0b2757750a924933b83"
    \o "43cf2fde23bed01d3f22faf8beb799198fb5d27b89fa6a68434308bcbf3c4c0695a76d796dadd6c7e5d7b875956269f0"
    \o "663f1c975cabcc97382567b8ff50bde4ff5e9ff02369b584827050a87e570ddf1745d6d8c17af08a0c0fd195dc713d96"
    \o "1c11f73527209bdfa0a04dc428f49481cac5b68cae3404546c12ace898ae433410435a1062801c4561b1cd22988c24c9"
    \o "ff01cf9977d21e02877409a9405cacecf89897b98da0365bdc5c0eedf143262f02f06b90ae270da7b88139b91d53434b"
    \o "ae849217e2817efd8976e334c0398710444ea7c8c4c2e2e3a41612935715bd6f1c8eaee94b22d3086f4cc69a287d06ca"
    \o "74273ca300d4af59f42d47ccb8db0672e037e5edb83cfe0b436d76e2f8cda88b8026695fc30ff46e2dbc213481f76d1c"
    \o "e9a1fa6f1b3dbd5cdeda4e16a013ac6e4c66e0a8d777a477a39231a781f631d49be578c732ebd6892720797d5fb8d16c"
    \o "c333e861295b47158a14be62f4188f3fc754108fec24a3c587c5421eeb2263dd00257ad199546eb452fbe43b7d154385"
    \o "04fc6d821ca35cfbedd968315cec4eb5e0f3eab0fc3e058bd4e80839ce88cb2d4eb93eff3d4cbf370ed42f1a3da9c2a9"
    \o "e0c53cb8913e4de2f26b477614296c0715ed6269bb5e4bcf7c69dee1d0e6e66011b7e948fa5d3100c2b6d2c5885f6e66"
    \o "c40db9b42031d75020de435da8e56e0c79ac1b1ef264accc8cbfedb02a45c2ab43dac0438715a103df57c59a9b49bd26"
    \o "6c52c49ff6e07cc036386821edcd465e8a0f4efbc1590f53badcc32ab09b2a5c337ea2dfb683d2e64fcca39a66245bfa"
    \o "fec21bbeabf3ad39a65e688e5f987c71702753a1e64d1bcb847fd9b47394988f1efa21973f76be1d3985c3cf1064005c"
    \o "568cc69b05628059969b66628dcdcd033ae8cc9396a402f238602ab601d74256122c9a56b535106ea18ff6b60f1259e0"
    \o "3a9bedd4114125c6e7c99b26080aadfbdc1110c15496f63c1223b513839fbc503ceddf2d474a493bab4220a77c441fe7"
    \o "36d8393a8a0b3c3321df306fb92da22bef7ddc76e1e3db63922fe15a93829b437900f7f93e351128c8dcd19f7914c120"
    \o "ceb81f9d683514f230beb45f1825bc5418d0752ba8b317fa6e595ed35ab33edf6c6fa611693dffbc778eedb3dd2467ac"
    \o "baa4b71a0dde29a6ac619e63a748dbcffbf24050a56c09411931e9ee0f844fef6712303aba6c34ab56dc8907ccf3a171"
    \o "dc96925e1bf90e273fa7f104310c0c0030b187ef894a05e472d8567d23e2fcb46c006f612ef91276474ebc19766ecb15"
    \o "3ff350bfdfde4fbfec5b227c134c6c9271710434ceda8bbbdc815fe7db20a56e8ce21ea319108be50cf35b58a6f2f7b8"
    \o "ffd0f9d58a63f881d605e77003c72ba8f810238317e011b7ed2662e9c0e9ab30d9441fa53c835dc02a935d62680ac07a"
    \o "7c52fa177b3a4e3e36b82481dd59ba7166aa9385e7067ef40f02bad02a25a888610461e3008d4127fc3d334863f2ae24"
    \o "43e458fced3049cfc8b8d9c6c8fe3ccd747b6dba490617f26c4a37eab253d218f512c4c3bb026576fed4057dc88a618e"
    \o "8e46d534a97065e1b7e99aca7c967f7927a0c3d7309d258c4bf50b5237bb3eecf7fd56460ef8c2d6944528c0bc594585"
    \o "8acd4e100f9aea4bbf7b539b504867ba0ea2622b0cd620c2958ca9ba7a0ecfea80bacd64eb5cf467da4bd9ca87f7e1fb"
    \o "284d82e50e8fa8e0f5f59b2282010c6214822f53d9f195d02f923996118a9d29985438811165e210acdabaccdca02eec"
    \o "3c365296675dd5af1eb0e38af10c718be3e9de9991d63f783f07f81494340a03983268560a2c827e9e8fc96514fcdd54"
    \o "6b5252e3a8499b92956b8c0c90b2b63385d5169550fd9d3fef48e8d542c18a62344a54b8ab73295bb758588d506e5a9a"
    \o "3d1a85dd43ff5011655238a621813d25abf3e3fca53f8a284ccc9bc2750cab7550f0fd0aedd4253bc07a30f2ef8c485b"
    \o "12922f8302627f73755233279f044aedff9ab5c2902059e4ff002d4d19985f1512c136e089a2688b369147eb8181a8cc"
    \o "43e42caf21e8ac68eeea163e5958a499e1805081119c4ea3e117dac33e896c645e9953d248f4ef12286218b8702cdd20"
    \o "d5704f328b10550cb41b31434d71c3669c96e9ecfbddcf7cfcbb4e59ce9e1a11a76afde68768a84f0200b1f0aaf91531"
    \o "d12dbc9a8dfa6a564ca415eaee87905ea9d3d7c71a84a51af05db76ee0ccedc52260e70f43b409ef1d8cbbace3c43657"
    \o "1b66b5a9be0f051b8da0109727cb6f2a45b89cd948212ddb9ad620ab35ebd32db7b56ea757c700aa341ef40bafffcfd2"
    \o "a25d6b29da587e8a439472e681627cf17d106c6040497b71e7c421c7e87d1c78d89a40c00d01280f17a0df49a2607723"
    \o "6c6f7633d450281c46d483f30b49452d00e85ece5563f616c56811cd217d65a0a319dcb4fad409e2430f801d295d6fbf"
    \o "bdc14f1f711c21c98d3aed99b4a69f3c6d7ce3c98f9797b00279b6a61ca3c44813432e61f1eedba3e21342b0b0e6a969"
    \o "e767dcea26286bfb8babce3b093923ded5a804eb5e84f058951f58d08d7248e225e979776e06809720a045020ab54bde"
    \o "4eea04e75d59cd2ae623a689eededb07cbceabdef8e1daa7dc5701310a368ce7e61fecc05b9962c635c7936cae9bec36"
    \o "3fe12e47aabc25fa1a50aec35a8aaecac7b5b2bc8f5486b7e256a6dcdfed2c436808593ff94d62049ee3ac2abfddc3d9"
    \o "2790cebdecfedb99ee0caeb53c9ad14cdd56cc942999b735f9e8a369ccc56569cf8ebc5a2d534dd0e1a47e10698c206f"
    \o "0658663a2dea9493bc8f7d29ecab3301550a1b46c84a7b28ee49f329696608aacd5f4822ab7f089add334cc7bc2cbb0d"
    \o "cf8d446a3f87e362444d610b28c13091c991603fb386f7a41bac27a761ee411adf46529009e9db0adbccc477787f2425"
    \o "38f16a8133173470d10bd1d0eb1fa9f275d66ed4598336e34e20fd1ad20eac17cb9bc326df0f06cb3a43b2ba39118497"
    \o "060edf5ba8f7ef5a3170f4376601ddd05408f9ac475287aadd463c0911c58ef0f7860b50c5f8bc164774bc5859e4b671"
    \o "a43825b58268690b6651529eadf4e62dfb2ca025d7fa2d8d89456f2754c63cd8f071d8790710d4301d870966e08596db"
    \o "f86c2ca242deffcc2db69edb94a1875df668a617fbc9f87a43f59a8509cb39421bc044fc98b8e4cc6f3f920c587ef344"
    \o "ba81edd9c9535b63504d281f6fb782719b3080d5fbf6e16f82ec9f2d1d9af659629c2ae3e645f129939b462d30a900ad"
    \o "41357e8c0b5cea6ab572f3d06fa17735006ed6e385197ff4ecf27e76ce777f0089d7fd6cafd5dea5b82c9074f0b5156b"
    \o "bdf070aabcae8081abae4f433270e4fa5d3d9e566e6981a311e9cdaaf2e9702daa0b7b14ebb7a3855487fd4f9f871ce7"
    \o "505cc686a9d3c2e6d91787931fe771d6b841d0a0e66978334ce1eb9081d2c7de4f2d4796aab97e49688c70155380b904"
    \o "6703b636b27c40264bb00f208dedf9fb2095eef6311c6eb66ba25efeaa38d0a1f0bbac67610faa3fad64b56cbf85bf0e"
    \o "e71e43a62c8d0e449d9262af91b0e1d94d0b0d1a67f48ad58c459ce2d56f0350001a9a8b4dcabfb749732d6c35ce8841"
    \o "6e0d2648c9277d9b9479e1e69b4e2c24a79ac9aa527eecfa770977497118e36471316269acf5e81e36b5229a82dc4c8e"
    \o "7922bac2cb323e35e6b3c944f5b78cc7cbc84759bc67f8312b70e525a8aa715815b5290848a639d083f4a9a9a9f25336"
    \o "a20869779e87e04c55cee5db17e8392ad1843324f3b63fe1c04a96c43c20592fac3c56404f77a66539820cffce7ae7f6"
    \o "32fa2de825b8fd4b0640be0f0bd4a9903eae0032fbe33b2479a289039c7c7377d98868ddc4bbb7a912a4def074962764"
    \o "6a18ce4ce2d9de5da1384ddc935f2b0a31c681ecb7e58481b24445a7624c69b67e8f8095664fa6633e75c3b425c73c44"
    \o "a7f36ae9b00805cc016b6287e4855aa1c03f3538dc45d539c521bf2de2add9091b494e15c7468f596cd661933805f907"
    \o "2d06e8cfcdda24baf53d4330b227462c8498e11376ecbdd60cdb1ca48eb225793fcb7546eadf5085d92c92271f115b76"
    \o "74daaebf222282e1cd29a36f76f2dbfeaae65fc187f8424dfce685048f15ba58986f9025513a7052f335cba3c1581092"
    \o "e4347d51714c7df49cd6c852d0a44432b8225688e45b712e813924436d3ee1dcd4a02e53e827a1b98c41561b722764e6"
    \o "e5af6e3928be9288be6033f7dc8aee30798443887337c599425a609fc074718e3f4b1a70d701410da33dc7af46fde062"
    \o "c40c5d91c715b2b98573e7937c0e8cd8a07295e93d3f3799464c04af709b7d9713d5f2f7b6aae05b49257af13c07c574"
    \o "458f1f1955fa1ab851d87c64e49d681d8a476a8714a0bccb236c7b87269cd6963b33f3d8620e99d3b1a6b1f1271e3ee2"
    \o "b4d7e28e36c59dac10714d516a34c85468586eba54b4a4828ae8905b7746d0ba6a702e2f0ff0a55c34f3193cd5385b0e"
    \o "6b8e869f63b4c08be7a37e81c51155ff95863a76f2311f17b20dcb6e05000bc6db52ca58e172b725c3fe01839360715f"
    \o "6160a6b47a1b5806018267c4f15784705a0cdd7c4c71e0fec0e3befd63d62a39da7b9095e4429ebbf41402b1d5f25073"
    \o "6b44fa8d89c8d2abbf5d2fdfbc10fa528bcf53a1ccc429039a6ec2f5e5d6f6e63875394c7cfc9b79382c043f45df16b6"
    \o "6f92f25e7c5308bf076e2bba638c254c560c95eeab3b4d37addc3e13cc530e3667814c1fb963f37f2a405f12d72b6108"
    \o "77a6e17ceb67146a20ac3703fb10987f9f4c3b7988bc539c06e745f9e82c7d7b64de82e6978648f8907bfe36a9ba5a27"
    \o "06f028ff157d94a1a48b3dbe6db9910222bd3388dde9f8637631de9d2e85cb210cdf742b42999aa4610cf37353cd6268"
    \o "362f5e5c74672cd953ac2ab956666f9fc2dff335e1301617610e6a64473bd358c083b73af3821cfdd4f8fd726bebac31"
    \o "4094ddedd5bcb8d014f7ce8d7866076504f64d86bfc00dc88a175dfe0d557b61fff9f585f3b1025b5997004339669fa7"
    \o "a66fd7f71190f938c7fee39ff510ab53a6d964a30a4e5b70c1156d6d07f194f9f319c1253f4df56133094d35d6d7b3b8"
    \o "05379ff69f0fda8d2702878b3d11480220500494793b4c32ab61a7b11d48a07190604f62f2a0345937cc863b770c7798"
    \o "b31022f041992fdfc4536f1d5e6fea072af43ab79b1bc8959b749245f6b751f7bf780e3fb7e6427c1d5206abc71d5e60"
    \o "d1bdb8c029ec8e49f6f7f0cc4fa03f261bac5c159424aed50692dc63edcb8cb64fdc6e1b93676a02ad66a1bde87466d7"
    \o "f54ad0a260141de9658b2523f1043785b70b342032c5bd89137481469793b9b4b0cc1b3bd4a057a7a092f52a3e2b6091"
    \o "1a16342cb27b3d90c5c14eb44d3485c5d9acd158af2b99b499b49350ce3714af1efd76e9cbd58bf6fbdd393390e0f4a0"
    \o "c85aca460a8381be58e258888861fe186daa2e68a95976635eddbbbf11a726098186a576a5c5650c575aed2c033d2bce"
    \o "d97dc9cd6b88f83dd284476c7d7ddbed1b0498636efb63b1f5f62c975cb85aeda2b5b498e43e4288d426298275b17a55"
    \o "b5122df8272a6d8e6f7c15ea2d174fc9bbda0242859131d2f7294951a684609945241ea69dac6e83cee624d0eb6c1016"
    \o "89c5b31ac64ee6e37bc67e1f7701f7bb6f81cf4fd36357b6bb2488a397ac6aa844b591f752828d80da09dfa03ed8c56c"
    \o "d4aac9a3ef43613c162f8a244767d76ce1b294de7367c28d3e6dd58bc01f36bf76f7225591e1aa969c3eb2d5ab0e664e"
    \o "6105716b561e16d10758e2017e8adee7d9d80b8d533420e62e8d0e877cd0129d364d7c875ad5cf06cc3ebdde4223623b"
    \o "572072464797b2c9e15ca666989d9d4ab380c73ae14eb70d46b989918e4852230299436a8441aefdf2b43abf30e912f2"
    \o "15eabb273dc98290b856d035680bac637d1370188e200724c21714293d85de89b0cbc61f79e13ceaa559e463b63b4dc3"
    \o "7da6778572bb912dcafda613046a0df517d2582e4b5305e538ba8abc6786d506b118f68d3e493f434e6384bba9f948b2"
    \o "94e0d3ba5e781fd7792799738db0674687ea7ff558007c026cedd15dff233d5fbef59fe68ce6424d54aebd1b5a104129"
    \o "b3ee4d3b7428a656455ac7624e7ed827405bfdc93b048a8b1ee34dc4b8a6171f314d344150c7c0061e9b23bcbe2d740a"
    \o "892e6161f36cb62bc31edbbcb0ae8f082f65fafa3108d4483764fbdabd1531c87bf4704246c8adfeb97e670396ef2ad6"
    \o "fa02eaecc29cfc0c864e9a1398c7472a48729a4dfb02bebb19bc143ed52721e731b1b0994bd6cee63a3c563e5c62b3a2"
    \o "2defe1934d6168bd039f3a25b540b30e88bd13d12067bdac4639447b0ba6eab9f96b648a0df56ac68da8eee44ac9778d"
    \o "b289f224f1afdb652053da42a34b6cf6de53790ac0b6fce27daa39f01a432f0adf6a8f930323d34292f5df7b48ca7651"
    \o "782a65e07a8d03aa70c2903f5738811d2f32751ef72ada9b0d27065940a26c60f0e98b3bdc99e04c7a4c75d41d34d08e"
    \o "d2762bdc10ba58e36694c3437de31a5112f70c9793b7a886a1235a8cafbb411a0db9530126d794d32631d00bcfa701cd"
    \o "90164161f2f9e5fa4dc82a1e15ce6a66fe716b143f8971421e52d7708edddfcdc3b290d06a8a616f9b37a22b989bc4da"
    \o "ca6dfda19e50aa4239c6a1cac693da1185c7504b616074597354ea6fe893be3d715629ee4c1f55abdc33e1f996a9954f"
    \o "fd72b0506dc7cac74e2d66459191b3639efba58b0f6b40d09c10c572f5c9b047bd767e3519675f06f295456ec342bd2b"
    \o "3531968da021c0ca3605bf5443bfd931a911d19214c8b3b42834e4c03d67cde92c7f0b798d4f5d271337739e2812859a"
    \o "00af5b3a68949b8d735435eab07aa066980402a2784c2f294a8ff810085b15fb3b4206c549c13de7b4fb0eb948603b32"
    \o "b3f6fe0ddc0f2fcf743b65a21238d630aff8754d3bc1a987ec856f3743b9da13c9af18f8ca8f3653a003cd2896fc734d"
    \o "a9434aa0cdccc33aef04e57d32a447b26cd5e8591d61fac38b6870b5398d1ca6a5cb63a226242b40e88da71944007d5a"
    \o "d39e198b246998e81247ea4e0f44704f2a79ea68cae9b4a74ebfa5c39854ce4ebfbbb17fd301698991b78d8eebd34616"
    \o "49e2623d706c5c561fd5a42377fc9703b04d33764dd8eb85b321bf21670acc5cf1533ae845b1ed25801ef1da8a3c3b5e"
    \o "7e695d0d7010f7191497d6589918ee460a3450fce3b137fc6e996e3ebc0a6a5d5283aac79a8cfa3c40181c6e069f14f1"
    \o "176132ed3a9aca5ef63fce41ac9ed156d6016237dc4ad56b93403fad964db03ff366bad4054f92ffffe3fa49c3c75611"
    \o "ac1aa554d248a9a744feacae9384ec2b0a4c9f7fc35b1c8cc19ad58c2cd94cbb7872bdeb84dad06aa6c9537f7135f221"
    \o "ea83bf00473544f92e76128bff37d19c95d829806f962882a2814044d0725b5c7de1bdfef8140102175ba98d785299f4"
    \o "5913f9d36889803e5553b2fe5230dfbdab8ddeb41ac70ec0db946570292bd156546e035a6961929eb194990b7ed70ed7"
    \o "49c8a43fa99f1318f1f8343e668409e3d045dd1cc2b01cfd8cd321b00964fbbf746f7891168b162550843242409d3602"
    \o "52c212211dad09b2f85e06a1c5c5b37a6778043bdd6ac7b883bc9478d32e6dcdfcf56188004b6faba85c6e4ade8ede0b"
    \o "8ae769ed764414fd69ca97d20de051a6300568d284b871bb5c9d927d9f64eeedc1a6423b7f9d3e64a01ac99271299889"
    \o "c28ebd700d366dfc341c6494445dcc388c99a894218a1536ed7bf65649bc473f70286046e17f29e1b2c083947c16128d"
    \o "1f15c7b60763fcd0f920264ca14923c29bdf0377cc9fd3343d42993cb5b453ca288b78b54f8d52388d03c91e03802b70"
    \o "8d605936687213f917dc8eff3985fb62fe049059d7665cdae9b5c5cf1d0bc9bd762172edf27292b61e1242e3a5d04d53"
    \o "d50755d9276aa6ce7f95897ceec259dcb77350ca4ab7706e82456fb4b495db4e45ff2c836a5d932bd5b077e07b85179a"
    \o "faf14ff078e3654b3e65260374eff5458d1fb540250741816232b17a30cbd755ebff8d159970cf60821c1336bf0d073d"
    \o "e11b868d22f235f2dd30de8911df12d746b82659c5ce099cca3dd859dabac50d6a39aaa657021049ef2ae713c9a7d91f"
    \o "81fb18b344656d6bd20f87d000a81de9486822b9b9de7a3a4c6e27ffd664d26496418ced9475dbc9ffb8102da8f1e091"
    \o "7d5911c6dd81b7f5260a59627250ee1889e06ab37bfdcc12585a0afa551ac8ea8d4a75b8c34b9fbb8b1e3b9d6090d697"
    \o "749176f4eecf67d25260001ede9e3757304b8590fb140bc3b28f41de3d225c309261549d620a60ac3bcabf85db23aa8c"
    \o "c68a152f69288e920b2c782a517400f8bea4ff317914f8a8b489d070e9d68f23cfb87e6f61985d5462d60e93fd08b32c"
    \o "a9e782d4cada4f80d21c82f8a6eab79efb16e5db26f05fcf7ecddbaff6febc0e097a1e102051acef80962718f72169bb"
    \o "9716108e54fd9ad3dea4ae1719b17e80dfcaf0b7d85480f070b7e8681986b4b286a4bae4e912b4bf74f93d1703edd1f8"
    \o "b8f2142324e75e8e68f45bcedef57689a79fbfaff84f16b32784378f1327f1bc78308930c8120a8ef81dbaa143d88870"
    \o "56abf2f19f8ded97b15516bc65c17795a65bb1f2148f8b74da0d4a5f541cdfcdda330aa1aca2b148dbfdd97e889b78d5"
    \o "61484bb3f4427e0b5110b492a075e927b7fddd71e32f2e63c268283e7cea2045df547e508a80068d0930aef69e11d2cd"
    \o "118405ad3c19e71da193c4b2af34cf65ebc2026f4991ab9bff574e2b3a3c8a71bf2c14a01723199d6f18c108fa745761"
    \o "1933918cc2a79689a23d4c2fb4323070df615a5c19bad7ae7194eae22a96e1e2b1aa0f6a4ca9cf07e746ccb90769165f"
    \o "0bc61066530a37dfcbd00ef20e5dd4624b1a269b5bc440f15ff595ea6e417d4725440fe03e83b91f87fa841a697c3923"
    \o "90e0a95bae8a7813cae28e662e1835542b840c672cd1586a143745099c07a751deef580f61ee6c5b9ea556aaaee1e86b"
    \o "3da705777f671eece9af299d9549c93124a35cf23b70b3a1760debbba34db7c54104a8b575a66981415d174aaab612c9"
    \o "0267deb3e61ede90cdfc6ee0771ad655e6b5a92c49a23a89ad77e82f8beddb122871173312e89d10711533f3f1faf665"
    \o "5876fd09fcd6bdca966b19644c955f6aa3917c99f64789866c9f82b9b0b862ef40066ff274f33103d865d69a4d57d880"
    \o "32ffe294ffd6f232627b41a1da7431527bb386051b4da0fe3cb9835061a11729926986985be4bf519326dffd4bbe4aff"
    \o "fe2110d0b303f4384b943e30059dd55dfa5a91cad47d577ba881bfd36553867d464458b40212b55490e0b95fdd750e98"
    \o "af908e3cc73f6e1bbea29dfef93e08d50c8e29e3e91e314e9b3d74bdbec39a377f2984f5d534ee1de776b886e726be23"
    \o "4944051bc696f5e6cc8218da3ae909fe9b689c88cd4b69a95a31b4cc3810ae66a2f963a330ac7d7b9ef2b93e402913ec"
    \o "ad81f8bdc16d83edb88ec318c478f6f1a8c01f05ae4c84ffd69d42f12303f6c6a0d4de3d18dfbc3ce7457704a0a11839"
    \o "a57694110a17991e4f1639a0c9e2607470d9c9f8088a93ec945ef2e45d678bb1bb7bee0321a4344f1712fb16e8dd5e5a"
    \o "4b8c5bdc53a3dd5abf5ae7e66a5e69202cf6bf75336749b521d53971c958e75e8a16a06ce05fb8bcf8b38a8b5da8d6d2"
    \o "87e5f0fe80759f1fe9da484a45c45a3ed499da992a1f955a41c8ca8ce9ff1caed31edf1af1b64afe7b5a611af7a67b94"
    \o "ce7607ad4b8e63d4bf1e8366ded255d056b60afccde22f1c1d7bc31377e490c7f6802cdb1346d1a92408a6dcc1101266"
    \o "f76c8ede39c1e262dc322c97ad238d36b966442aaca5e2fdfadd7ea365bcc272f79efd70d882b5c1cdf974a78eac0a33"
    \o "5da36f1b171e16ccca6a22246502d6a203902c5d43b38eb4895ccd991fa382e8746cdb775e5ba13dac3e7b0dbfbf397b"
    \o "ac1e86d8431d029f95a5bafa618ae305d289f0aba377f6f1f0b6f83f5f18e5831bbc91f7acc216a03bdbc09e78b2b549"
    \o "066803ee9e9a9f83e25d36ebf17388568fb864e453f8382bea4e36179c2e58de38ab854ca5cc8bf7102efde5a2a9d4d8"
    \o "d2e82f3876da3ca0e8cda0ccb379cb1e4d5c55c7a6348e78688613db1dde796923c86d300b9bd934f23e323d0986bbeb"
    \o "4dead645fef518a67e1ca5a11dba126718e193313c1bdacce3236d1a899ca78222bae10e637e4b017421ff465efa9c5b"
    \o "aba4fc03f30a9e32be3e6e57b24cc64ff22b5b988a4a0e2d6b4be411965befdfbe055787ba0266ef278ed00de2aa7a5d"
    \o "6a35df59a7a8f63619597b5ad56ce8ea7d45d8ef9d9b6231687a4850f065c817f396ea37479d0cda08601833b0b63bcf"
    \o "5edb0d3c379efc6e71818dcf71d79665f35795603c71e0bedafec8a95cd8fe1a196f4dfafb1e143baf88bdec5e09a9ee"
    \o "8b621d41e6d5901dfa53e34da5135ea05bd20c980f8035f565ec7acd46a02a9b30974b2bf7dc67e01f45dbfdf2f25eef"
    \o "d918b3e5d2fe2fde74685b981777e8cba9ab364a364c911aa446be72a3b5cece98de8ebbf89992460577aea90cf2b69b"
    \o "c96b5edb5560db223e5a87e3fd235def203c8c25c977659890882eaf34885a4611906f50d46ef104c3e15a858de08fc2"
    \o "350843f0961d33ba3748967fd0243d72dea45c193ba5cd2f541c7a86c63d04ee25c61c45c9e48e8ce68933a9989240ac"
    \o "00b9d4a346fb7bf3dbc080fdfbe94499250a4578fcce96f621472a158a4b8f7c402adf9ccc6b66e52cabd7e71c24220e"
    \o "a93b12cdddcf87660699873121bddb4103cde2e35bb5c40cca3c6f5fc9d6a63b3ce915e796bf10ab52e2afd9040a3aae"
    \o "2c9b662e43ef20160d6a05b320733f6dbde13c1b6bc4123e86ad8a8c1d181ee9bee3eb79104556e579eb416872c22a16"
    \o "c72c1fe35cae96108363900797fa7f041beaf6ac73b6a09b80fb929638b77c07f206c2699d77a45e0b19f88eba2c98ce"
    \o "c8819065e8a3f341ddf275eba8addf36857dd3b34d37a53975424646a4b1f991f6ca6b8b07f97d050f9240e1ffa361be"
    \o "7a9e8eefd8e88ebb66d063716d204496afa415e51ba362e77d824264b65feea9e8e22743718d4d0512d0498de63658c9"
    \o "14aeaf5c5275eb949bb9615525f934bf10d08d11204e178c466772ce9fd34579a21150f995da75c18c611654b64fa54a"
    \o "533f5a726182f347fe9fecaa98eeac2b87d292a64b7e6b3c7426b193816bcb9f9afd40156e218b091963c26dcb08587d"
    \o "b3a7d0e01d4a3d81da509feda79b44b6a6a27967e0b15abac4dabddb8d244e3eb888f6eddd90e79e370bc0636e191042"
    \o "73991a47e359eee13a7e8e1469efafb156c438e4d3d1bf0f7418810966132e696a7e4c36bac7e2b918578baf50032b35"
    \o "6d4067f450018b7baa4482594140752c5fd23109f41ea3ac2713582cafd380c4ec48bf5579699ed2112fa612175a81ec"
    \o "d4ef00aa15da705c17dded816e8f75a118b87245be9d61eebd21bc115f65c8cecfd01cbd214f3f128e6e50030f5ae9d3"
    \o "96229348f4e559e58fc420928fca7b6a5463adc7ab85fd591f4a8ca1692ac1395a856750dfa4bb9faa53c19cf0ede303"
    \o "c012a0ff6c4596f6de3b496fea74bb18b8976ec50d2b91eff7e8f8e549a214ae99b479d44ffca6b15a057c111a85910d"
    \o "93f277cc81e5c9f636760ce5279c658aa81fdec37b70c3b839681c81d8e7012f1bb4333259a1120ed86a64608e676a01"
    \o "5e187b241d691fbac33a1f6c47503f1d92f837d439e58ff0cea60f4c6dda4f8dd85c16bd8f9b72aef97be2ddc4767556"
    \o "d1846c399f294a8b9d132363accb461aa487eeab8e867f3c06b892319be71737edd877c8a867a096d4578ad9b18753e6"
    \o "44777442076979d62e2fbf7745f50c52b3e4110ac32d45264f199ec0ebe9e20756febfb959dcabd0019026202e709838"
    \o "deaf528d24ac213090fa6b57a847bce76699cd9911d059b22451e5a4bdb025ffa2178f84f8c88fae07d924ce177d6e7e"
    \o "bf012e3287cdb6a13712f2d1604e46cb6b7a2460742221675744f596284bf9625ebbcca54fc77768b8ba8368530ac1c7"
    \o "c6deb2f0f10013a7914dcfae98a21f1c15bfbe97e222b6a60d77c5a027d415b6284c03d2c122b5b39e2aa4ac0cbd3c03"
    \o "ac8936bc14e286e545a88829716fda0aa974d0796c8c3b6a7c54535f9b69554d7129cec76a07f21345ee432d372f871a"
    \o "c143f426832920b71d2324e6585d3f866e0ed1e81c6345ab4882d73cad9fb00dadb1467097d7a5607c93f6cc86e52753"
    \o "aac933164ef492c10ba078e83873e57f652ffb49fc04a168996d5c500e0630cd01f7c7ec345512f74d29d1abf200c261"
    \o "36136e15c47104c02321d1e1c3a00c6f4169b9fc4a19350153ffd3a21eb74b5601fa964e7f54a511bf3c51406e3f683a"
    \o "2cfa55b02112507c6155466788575117b423ccde3ae889268011316b8f0881eed556b37dab05347fce6322b65aaab32f"
    \o "12738a2365a674c2dc9c96debdf66ba50ad452306fac167304cc3ede75b27455ebd14d2c13eecdc6dcb33df35024bdc6"
    \o "9364f3d06de5933292ca525a67884209b5a1b949a3e053096aedfdc74a1dab321d7c009867b032830556daeaf758dce2"
    \o "532401fc2bffe17bcd2372c2f296d9f09e3d750d75c8e90dd4ffa666b08a4895eb7607c95ca260c9168fae126fcc57dd"
    \o "d83020811b19d8b83e49fd096f887f2896c044d06683e107862268d11422373f6550f74adedab0274f6e274bbeed10b6"
    \o "56ea57b338b8f24e5543fc3cc77444cb2b0abedd138d994c82af085ca21b03071d30d99087d5b7be828c37e731a3ac4d"
    \o "e7ea8d5ac6b6e4ad5970a85959e1ac09ba35844ef54e2019d1a69d87a53bc024d0a643fe25cf00413c7c1d851a5165ca"
    \o "257d5e524187222b328067a12c6a6e9a9a36d1ec2722796ec29d782bc257cf73a7cf705c134a5a2f2d5972c6f387e1bd"
    \o "c5d95f51a0c140357e7e741976c5a0dcc1235c919050f7efc2874f069458054e72eb7474ae5ec365ec955f87e1cde87f"
    \o "9082889ba49b1cd9a2a2e91ffc8d5b939fe0a8c752bdc661dd3f487ef891b0c3a09151e050ee7a9226a524e370944bdb"
    \o "117b355b780b365771348c2aa1a274854d85a3d2cbdc431846510367976749000e614bcd5a18e2a381e0d48912fe28bf"
    \o "4f76e3887634c16973b0a09109a0a0f60e9058b65e659654d4ea120a497de16d13a4a492a508dc95dd3f7d7efa34d2e8"
    \o "daf481a7171dabf99d71308498159d6c81cf3252626d719d7674456f949077c28de7ad6cf4488385cab4923bbd29ede9"
    \o "e5582e160a8076ec7321bf6be8b77f7bcf501889925817b7a6ded1d830307633524f93ff9ae1a99179c2d2e480599b93"
    \o "269ed4c9f52d4af20fd6f47e73557b9d1a7f195bcf9b8558e62d2d06d65e59dd57eb89b1fb7d9f1cb6dd625715969802"
    \o "812a1f9ba56895c62c2cd22b0a0537f03f6c21f7b526b22d7010ed13fdb1429e707df25186295b5d85d2d0a69c1c3517"
    \o "28a397795d286aa45f733a3eeafde7d9486bb6bf632dbb5e68a51c68c6435300569f3ab3adcc3daf990f0c5b0d67d38e"
    \o "ca0ac6aca181c85ea5b5cdc255ab946d10df997454669d1918318aa38ed6ad5eadaa44ca62f5df2b48bddb3e4082cbb9"
    \o "b9469bcfda003f16a8149562f6e39356e806133c9a4a99b2df8f4197267eddce555736f814dd5061952e6abba9e27ba9"
    \o "2434a678eaafe543598ddaec4f6b58c8f7baf55ea7f333b3b2cf952da981b09864575bc42102f9c998549f22b576255e"
    \o "f020e99215b025304f40c22f8f158449606e0e1ca4bbf962caaa5bbe54170a17d02ce0c120b71785ab8cbf97b3ecb951"
    \o "d436a7a8f275b5f3bd20563bff4625afaf77520ee99630f786c1b6cb17ec889ca561e1e9aba301cb6c645c15822c4d32"
    \o "5ca0c42804aac1b75cd333694f11d8dc2e25b5eef37fd50d36d55494577bc55af29a6339c422d03e7c7c404e31274148"
    \o "39feb99cfffe77c823377bbc27aa7cbc13c117544bb907ecd82c7565c9c23e6919e45c6a81f7f3fbc5580bb28a2e6a93"
    \o "d5ca69abbd17c5e8e238fe9386cac6f409a9d1c1a97431db56363094e05b46c5c42cbc399e374f7a218c6e1c98e52499"
    \o "6070b6a1277d1be9298908802e4bebc4d4d30795b15e54f6c566aa819feefdffcf1d7d3ae71476682a60c652b89f72f3"
    \o "700b5d5f0b2f6d5c692e07b65d42b9e9ad261ec5b836c4483ccec76cf836f57171b701aa9c4ffb4648f1096dc09cb506"
    \o "bfa016c2c8a723e972ecf16e3be79df488b4f4743d3a25824f3949a8f7315749cf01f944c8cc7cfe78116802e76adca9"
    \o "d5c9fdc731ab0b565e2ad32dada58417f2771f6392070158fc043f0870cafdd87630a8a7c4f9eccd48223120c7332304"
    \o "61c2645a80be7e3587079ad46b2d5b09f75d599f297ca4ffd11fc8c0331f63fbcd1f53189acb394a236e1608df7d0dd7"
    \o "400035f00d5ba7cda4244f237b07fd31dfc620ce5f07c1a58df661daef2ddcc41a435206b61e5fdbd88c656d8412a335"
    \o "d9e604b31feae1e048f9e3d01578d709c35b9fea290a3abb45d5a68d73069588e7c225da836b15c725b8a42fd4bf7a4b"
    \o "6ffe33b3177a8a5ff24823abe916da5738d77b9ad11376e0737d1fb6e27718c5597e6845ee33688d06d3db936a36af18"
    \o "0da23e5c657e01c9808389c85fbbf0b13c5bf3a762dbc850fe9936a314e4180c5ffa46ef397b5f5107374c86519554e3"
    \o "ee4a9b5d195d82f8d6d441ccb6f6dbf1a663d2cd55d596afca97ebf525637cc32339ba1909ce3cfb4970ed9aeada79a3"
    \o "d46b415d78f2ce6bb231c60bd4c3a8322387eaf6c24369e7b49e04cc781799ff72d78bdd9d8776a001582463e7e646c7"
    \o "144823f704dd705441843b033735262dd5c0244d2646eaf98c7e6f42f0b2a5d1ba2c0f199bdf90f2871c08846c5a6c93"
    \o "1c76bdf6c6b33fe649c106693cd5fd7f4d183eba1f3174050c394ec73d0a5f0c6b79afcca3925731cb3cf8ca9f708368"
    \o "750565f5101421311c612ec2d6312a80e7b7b4c67ff4cec698c3e3ca893ad23204351b64a1c7cc8a83efa9f393364f7e"
    \o "3defa849b7f2857224c173b94a90cd0c6de299a10066853d9d6429325a5226e63d959e3f921704756aa42c9f2ff3cde4"
    \o "aa143cd8ab1021ce15eacbcf8603156af982f4e05c50872011536e99f412436086abd4e78b48f49681e03a5ec9525185"
    \o "fd034ada81f38dd48ddce7190534a10163f4c69ddf92a621785ac5d00b251279a2bb522b630aa767fb25664d5f90bed6"
    \o "40ef3935bf5023f4042873785b6a8102c9dc72b8114b95475844f9fc3dba6da8bba205caa837fe68a0d572c81a89b71e"
    \o "c5811d2d94f79dbabc3536dfc1b5b5ca551ff0862227219f0b5995625a3045288bc78e8156ab087ad0421dfaa48e40f1"
    \o "2cd2a404d49405f0c775e395af475b4976f186abfb16f757b20507bb7a8104dea1b970d02ea9c542cfbe4fe92285b2ef"
    \o "10275b53b74eba93c6b469eff1901b7e752a7d250977c5134b1f0d7b339b77a80b36e356ca86222533107475e2c328aa"
    \o "0aba590e50cae32deef166944f61221783f02dc765f202f9fd372539d0be73ee8b040f497930ba2040d92bce095ffa81"
    \o "c0d7ac73a59b457f30ec2796493e904d5b62a8dfdcb51c53c7e53bbb0c3ce284dda4f4a7a7de02cc54f9042945f18619"
    \o "1fdd980acca1b45c5e3681276fdc0bade3b563606667d3bbbe4969ec7092947de506f670f4dbca0762fb26d756cb1ab0"
    \o "f945f2fd2fd340c07f072cb9b12b66807f5db1635e0a72abec9f9c54cc1b415784ef43244447ceabcd180a8215260718"
    \o "ba2200656cac028c14348f626e3c45329a3a6103febec0dbd284f54e2e3265678ba435cc4b3446bc523ae9931a43db54"
    \o "147f657053f28f11a93200944baf0f5e4e76833a7227890e9a45693db7b8c1a56d15f16f2aa93b43b0946d2a71a3fad2"
    \o "59fefbbc727716ec0ad7c9a2ba108217debac186e95f176c5a4153b39d66e815ff86cc316f5842c346494296a3b442bd"
    \o "fae3114bca9e4a62f2a9dc8a0eaf04b51335e5dbabd2b512a334058a67fd64c45d01f55f83599af6cd14a03ebff9507d"
    \o "adedda8028f4e3cef3ea018407f8d4f0248d31ecd942644c9b89e5cbad973b67c8040fb7702c182108e895d720509c62"
    \o "113634a53c6a3174c74cc890a52964ff5dc7b3e65cb5e69c6202bee6f31046dc9136f1f8084a67809ae77eab2747b93c"
    \o "add702c9732e2016f2e6195f5ef787b85f3c44dc71a6014cc359810a13aec37692ec89af233ffc82878aaed95df06e8c"
    \o "65e58f34507b9072a6499cdc4758367b3fe68c9cf5e4a4711d0af7f706a241afbc55300b2fa0d8427fc15858848af440"
    \o "63119acae9ddebf58fc9c86b1e2595b84303cbc1c664128542a259a6b43bd27f723ef46636ee1640ff11c8ba9ca3fbb3"
    \o "491b90e9b1a8b71fea9e5c8dffa623d07dbf4bc1333ee3441f652a8722bf18f5da52d2ee12f5131a73b911d82c33350c"
    \o "e60fd420b69f68c371f2ce8fff4c96d61679742fcf7dcb43ae92ea71f7b217c7d8741408fc90283851d08109aaf78c67"
    \o "58f0dd23b5a47200109fd8ee8ccc9cea8acbbe094a552ea0e42e50374cc9f5f2d9f2dd0d28524385b6391f04b5a5f8e6"
    \o "ed6522b4b34191b8a3404f082c913a7ccb2fafa35c8ac066823dd1073967e60a1f119c0ffc31a5973373730ecac4d0eb"
    \o "238d6f443c9abe10ca55e38b7e7838c906ba8cd35c63b6f38dd4595b9280c5aa5e70f65f77a7e8b7cdbcc653fba6abf7"
    \o "8d38bbd82138afe09ca8a5c4e25df9a8161237c910d4de394f2dad3f65edcfe3ffe575f6b788f5d1b807d78a7a89cbeb"
    \o "8693fd9d6929de73c4e7f7dd68d0a2a8d2c65ee4932cae0112e153a620156a72f8ede0ca5128b9b1a4704d4812fc7a87"
    \o "733187497740d831ae1b9f698471b4b058321ee420da8972e0c1ff1ed43cdd6dc7bf4fbc8d2238e6a3c988e496792482"
    \o "2e9522d6c48d5650f75d1e3c21084dd96ec0126980bbae52e9247069de431e060e2f8958d4d607351fc905f884a2576c"
    \o "272c05884ddb1b362a26f7702976aab25299e505ef4afa88b596ca7c39b86bb25894f7f1f28e4122f0df168484d67c4f"
    \o "e519dd7e48b763d5d88f1c94143029a94027ab7d3240d7a1a29319faf4d375c18d03f17a46426c45200b2903a0017720"
    \o "4d85e9c79d4b2bf98892042f17eaec8380a8a23da417c0932b2bb8e99780c215f10d27c894a53fde277946852bd3cdcd"
    \o "a8a2b7ad9fddde2eb87b6384e6e987ca9aea622f566e3cbed7b00bdcec86a890904945830a8bb5b4d342af08dd20c3bf"
    \o "07437c3b14cb05640ba36279f2d3f761a4364fcdc561b8dc93a7479243c07d43a6b0745835f789bcc4576cc392779574"
    \o "6aa56e6d9e3c5a88a394ed5407c0d1167f7f6c0ae3954cb1a08dd21b8baaf7444a27ebf2a4540937f4e7069a4d560a3d"
    \o "7ba245883eb05181ce000af0ceae71cfaf5b8f4767f5ae024c24a053741b77f512ae5c22b048faa10f5675f82877f5d9"
    \o "7089fc6d6a662fce7bf7e1d376e5ae78343ada2a5716dc2e9b4e164b24c778a55005680fdc8a4922b7e6a14c51beb80e"
    \o "bbf483cefcef1972dc5be7d1586a346af9b21e6e66124ab42179e3f0c2baf0e05edbb8ee83d5bceb8fc85fc01b2ededb"
    \o "51b1943c3de28859776abf091f5d988f447906127318b96d3f779cae24108e9a18c8a6160cf477ef4a4b5563f204be89"
    \o "6257a4a2dd39d7939d8960476b0ae0e33f8ea40af6729464dd84cacce6fdd7af28e213bcd040158753d2d56def0a573d"
    \o "93e34c35b89bdf7f500e15c03098f7b2c35bec2c28caaa1d7f8e5483fef7d9ea83c501cb7781321e7faeb748e10b1a47"
    \o "4efc82487f53a88e05eee1d4170d7507f1fac6e764ab851b8164ceec750d112ef778c6763da064763713b46695560a2d"
    \o "5a5755390c74dc0f0cf0374c4806f8047eb162f198f6fd7fe1e0fffcd7c4fe9ca77d95f1ac2a4f71787861404926ce5f"
    \o "896490ab0217ea0ed8e049de1b84edc36e51484d22498f66e1e89e7e43b47ee5ba3df7ff5da39a73c38c1dec673ba8bd"
    \o "5dae12010b95017c668c84770d18ab9591fdfa4f8fd33afc31d4ee095cce5ba98da0049549e1cd1312d2fa0662e7c1a6"
    \o "8116e3fc734a6ca3c3affcfe8cc36f3b479bc637d3479a3bfd350c5f9f8cc29fae2e9af99c6d52d51e6a662820f0156a"
    \o "f99f070418c01e2b64d6dfbf5f89ed12cb7e6268fc9e1dcb56ce4b428ece1128f05eeefe5d986115c14565c724eeb4a6"
    \o "32f575109a3b03198255da6166c14dca80051b100a4e25520b99003409f644052314d0c8b6adf48b554227decdd0b4d4"
    \o "79474bfa84f2fd0f74fd33d12620f9a99b33e3a4e4a4474c83f82f1623c8afdb53f591dcee6e2e729cf20859518b2f21"
    \o "2999bbef6498abe9fd98fe339dd2f9debd44089dd7b4c2944c9a9f2497fe56c5561c921081df6517d40ac5e9827c9f8c"
    \o "88476c567d66971eb56ff8ce901bcdef4cbf131d79928faad0d4ea67044251db5e4cb28754cc1e2aac7e937c1c0f0bdc"
    \o "fada98f56aa26216956d80e44ec3f970cbf81f86e61599c8b9aed8e4df41e335b023a0eaa117371906d2591398cf1188"
    \o "797ebe8743f9cd6bf791f1e5a7d4cf50c86c6544f8d8b7f1c6b28def9416e4dc93dfd9073a4045ddb8adad870d259caa"
    \o "9561c8137afeb1142ba6adb386341718a107cc46b89f70399ea7017cc64c9647d756ba9c6154276525d4a0fcd25864f2"
    \o "ae441e213e00980e081501479293f705f2bd92f2b35556a51c221cea30d73df704d9145e70e7e756504e26876b352f85"
    \o "26c432f669b7c0fab0c4a01c34323ec6690e7e6280773e33c66495a79c89d374eba742d278bb22a5df70fb2ad92f3c1e"
    \o "bc5fd4ddba3706230ff1aa9fb4adaf8923595fa484c86c46351458908f9646855336723bff84faefa987b2187a768555"
    \o "8685abaa607796a350521700f4e957342c55aef775ac824ce980f808887b03e557a2be4e8bd88fcd5ab28d4aad05b912"
    \o "c5a11f5cde1e994ab88e830fae455cc6a4afe7bdcdbc2c1cb17cfb2143ad3d629c2dfa977bf33a3431383975f5141058"
    \o "3f1be0d0476cf68c8edec44d4c6a70f43990e2c9f1053252f910abb3fb7569234c3077c4c56bad4c49fc2cd8b4746349"
    \o "35102852b0b39015b47a1c5b7d2f4e585129950d7ad465a1594b2a3a8f7c1d59ef06fccbef3a6f27cb9faf6db8beff3d"
    \o "4601502849ac90871f33242d92cf6021ad371d9e8b0e8eb16133a34de5508ea2faebcd1965001423d1812f77585abefb"
    \o "f4613f09c5e78b23cdfb4db9257f75954a5b1aff0ac4de8549a22441f48f709cb6d1f6bb143b45e358ab4778ec8be537"
    \o "713f8f8ca7edc8d841a64fedbf5193627aa4f05236c7d6fa33baba88d3f4a49b89e03e224568f426eedaa8028fe069b6"
    \o "b23848494588fc1b232452111bf645f69d9d028ebdab07e7963a86173d4196fe3e11bafe0cfef683ab7a3d1ce7ba26ac"
    \o "87f255d639c59df9a35055e43b9b2d450d700ea419a692c969ce1e4e548e1f6bb7a4c71978ef766619bd4f93ae62990c"
    \o "c550eca823310a2801539221f6eab3a08ce3e7c3fa585b27edd97a1a286ed390682b163aa723fb72ef5e4376e1721c83"
    \o "e0decc3d79c773a07a3a10e1a689b424330f8be1c1836315f6c312184988e41852380bf24910fadea55990e70f25477d"
    \o "e86e8e63c4cb294f16e6e5c0a6fd0cb192fa675f3b72c86d88ffbd40bd1a8f4bb91e3d6ed9af6e09efc9909e098c60b3"
    \o "e9c96c52ebe5841f2cd10b9f6afa828ce1dace6ad66d46272d007d05ef158d5beb6d2fed094d916dff46a6bfd61169a1"
    \o "65a16fa9c9b7c9bc7ed17aab2fb21e66efc59738bfbeac7af64e3dfcdf4e713eed10f0044a1a81f5e0723d960997623a"
    \o "025f55434c636e959165f2ed9a4ffc0c1b780edeedaf3766fba57cc855c551fc48d9084674503887fd359f6aa42d0cd7"
    \o "8b15bd948639bd417e710b55e3a68a70f0458043225aed6cd9df0d0e811414f877d0359e45d8a6ad315c167acf0e6d2b"
    \o "1cd66b0954a7b69b2999394cbb2aa146757b6b29a5f6073541dc1c60b7f60cdf2faabe0b039b058cbc92fd81564cfbd2"
    \o "ca6fbff84b86b5a1915a1c30aca58d95c1dd484a317304b52ced3c0d9c678393db2c6ac8a383889ae5a4983b67ce378f"
    \o "d3b59af76d7df5d083e96ef453f300731634725b669d01ffab545a15186b28802f4dd219fb4fb88a23ff23d37a3a6e96"
    \o "52d78f10ef9240b63f80038501bf9e7342c2d2eb6231ee733c4b1eec725d4259c0f632294459bd6ef43ba052546252e7"
    \o "4d4c5280951c25d5b90ed44b92a8171302ed73ce42f525b9a757cb105c0b9b10b15948473c7e53680fe76149aaf407f7"
    \o "1e43fbd2772420414e8adc4b28e333b667c96204afa2855980a52e65ec50ace4e5267a2be346f415b41c504fc5144d98"
    \o "4f9c4027b0b6dedf1e0ef546a38295d3ea87855ef0cd7f054b87959f5e175b669d5817e83889936a3818cfd3f5159494"
    \o "223190507a6a210727372b5274797b61bf6b8cdffd247c119b11b5305fa5e0aa6a74dbb7b3b263378c9aa1e9e9ad0e9b"
    \o "78883058c1e1b94a899ac252cd4f8b2baa0217d0d35ac07a37e9d2e2c3093b6e3f59e4f2ae2ae341c1369c6598874bfe"
    \o "df85c777c991203214f573d086879aa9725e134d87365a84b42a04565c9deee013fe8a29ead08c89906d5c8c1cb9b73a"
    \o "0fcf601fd42a895e8c32bdb2e723ada38167999f33c08bf1929c93b389628f6e265cb9d92a1f1b6153ff8461dabf984e"
    \o "85351a69711c76731dc1e7ebae27d4323495311eb787ef8d95492a827d23d4791747f387e61d9cde82a7f586720b274b"
    \o "cf0671c70e3e25f2741423b521c71aa3836435e36a5943ce74f0beae905c7bdd0ec7d6628f0d5540765e6cb5ac3a812f"
    \o "ce9201364ee4334eb928e23f0592bfa5655ce50841241bb4d103142400c59f30beed0af937c86152940c350312b2102d"
    \o "0b981ccd6c776e9558330b30b34c6c73105291d38a89b0f0fe7ee3620f6ce9bfef40d162e4eb800011ab3d11fc737d92"
    \o "ef0bea4f78d9a88a081fc6dc497ec6d168ab80ea2e13418dc4db5a6222ab7752c40d4874a43afb7afa740cc8bab2b77d"
    \o "a55871e3f6ba745b6b9cd71c5fdcabbffe2bd987e42e707a61ea2f3072d35458de9f6f5beac80da1e821e71660a399d4"

\* the first 32-bit words of random.seed(7)
MtWords7 ==
       "52e6b438f2a74de4269e0d376513270ea6a3a4500c5c7fd0128b2f33d23f0824892f902b1818e8115d9dc9f89531985d"
    \o "0ed90475e8e25d9481e74ef536f675cc099950d81600a35a6f03675a6b0d549b11e20b8f3d9c17241738f7d98d116ece"
    \o "6cad4a260f21ddb6d3ac94af90c192cf1fb17c23f28c105d39263059a170b338a09f76b5953f48f1f29d0da90fd630f1"
    \o "93bd04cf95e60af5658cda140cb1e29cf9ebdacc3898d1900becd7b08e81973edbc496cb2217bead4a23d5966b4cb242"
    \o "24ede6a48a6a63ec1e27a1c0922766584ef8aa388f6d0558d0eda82fae97ba942e44158b1a61dbe294e3bf91923a7369"
    \o "a38fd547301850c55f55720318f135d28c38fb29b64ce4221012f037907a70c30f4205b49e7769b134b9b5df7f150524"
    \o "ae2eb154881ed1626d76b07ec6f87718506bf2ef7731af1095e761d1ec66a7877403e4305c90a9584cbd87ad3f98e277"
    \o "cb5c74272e05319ab2f14c94c7a2ea203e7d1bfb14f4733f930d6eaf4cdd2055867347217ebff206e00902c757ee05cd"
    \o "babced2072e6cc3a49b64a089be4bcfcfaecbd3812bd4ace1e398f10830e07bc6b0a18e82a3af4d4c1d3fcff5790f82e"
    \o "26e87555eeeacbe27d2caf826bf46c690a097c97f646e1f4ab1031d013deef86c3baea9e8ede0d7a92b1d3f2ca02135e"
    \o "e01f5057d17f9aca5051c1cc57124242b1fee08f59a54a7b98289fcd7f26144b9474031bcc011cdd74c9df6a119a72d1"
    \o "d70820fe17f5e837f1d69ed6451abd81795e8229b2715945aa05e11a10a3d6b20f88080bbb2d420fb394fb364f426dcb"
    \o "a5aa3c8193f448b3fe3b890bae658f33d269a9a57215837048db40afb774eb5262c33a4fe3151288ab2cd31e58d5563d"
    \o "05c6af07f0ce58357631a9925affb2292b0537e69c6539381df9fd787e62aa0a0f17a30037dc76fbc4aaeac149952399"
    \o "211c70cfbd0561e63f63af8365dc9f506415479ceab477d2df1582b07f1b103c14a0f9e72a96fb1a72fdf20266d22876"
    \o "8ca818114720771fe2257159230d977ed1bc52d96e36aab0dd2e16098cdb305f47469a4db4d66a3a6a50df4dfc891b4a"
    \o "5bd86d40aec6f024e25a7605616499c9f52ddf5d3b1287ff26a2c0bd153e7c2a2d1c9af026bb7dbd3b618676a8948c89"
    \o "3bbbe9ea0316909e7c26847fd4c28c2e96d0cc5f2eae05cf43435cc5482c9cbc010c4759254b0c4e6b4013ef88daf401"
    \o "5e8766ed9c1caaf790fbbd11519088f5f3fe39c020203626b0c4312ddbf4a8b283f73f16f341e07a9e1a8ef4a7abe1c2"
    \o "ad1b72dbbd6288810dd27a6574e69a5de647cb8fdef88334c7ac1491f3aed0b6dfe01893ae3a2b7fcc4169a38f2c6ec8"
    \o "6472f1a365e7e42366237a0464e50cad1a81682c7b45145ca260cd0b668368860fef792830cbc97d113db17dfc132d0d"
    \o "3571810a70ccec31298cb3a51c2442f9570dc19599c943090d75985d1a358ca0000f49c89118bb1626b94c7f895fd7b3"
    \o "19f9919cf2ee4e455d158a2f9d1de2a0068739fa1200339ddfd43f37353c631c9d33a01c6050914a2607679da268aa87"
    \o "4093f6def4998d7c58ee85719a2ef80f5d39d0a87961fd921f7296ab1d87cec3d953ee267cf20724fe3bfadafa529ba3"
    \o "774b15d77afb2c687bdc968b4fd58dbe15fc899e24e4e25a1a28f7b3bfeaa15557b6fb7ebd87a86543c71b9a7a86f7a2"
    \o "d42fddbbb12aa1f629540a6e842e7fc205e999f33488f876f373ca53f3b7a50d873be0785c9bcf352587be6bb0a844e5"
    \o "8b0d590bea05754306ec41adc215a82a87322e254c4f9b06fa7f0eaba49636a2dd02de92174c77a2b239f3c7d86f40f6"
    \o "42d8720884b5a8185de00997e883a1d42ac344465b0ee76fc59db9163908f2278857f9a48aa4248cc770242080b0c08b"
    \o "5464ecc2a2eddbbd391942429cfc8652cfbf3360c9d488b1fc241d0bc2216b02da45e18a31f51707ce5b2a923d4882a5"
    \o "d17e449766934036bd685167cda6c6fd3a0b9965332dd3318483f8b87e26f36a5b06258ebb2313f5076b3e36fd56a926"
    \o "0726e25cca44eb864787f93b78e4b98d425940523192b704b1491e249aea6429f4de2c085822cb77727d8349cefe2a1f"
    \o "efe09f07b91ee9e5fcf00fec597a1ecff47aebddf979d04a5d58c705149e259b387038001a26f8893a12917c78572976"
    \o "325b55dd5675f6ad3451d0137b8f2ab59fc2d0a1fc394724e67a9b759c3a23cdd726c86b007d10347abec539e8c14743"
    \o "a72991b95810d60eccb573d9a4a45eff15b40aebd5ab8b4da91c24391eb20109e8e7278963771407c8450070b6246771"
    \o "c0093492330698a17a605a91e39639be2db3997f6f15b6adca04c79fa2c68e45551fd8f916353d03cd02c5e1f237e45a"
    \o "f8be8831b8c9817a6555abfe7691b06f66c1494ebe4c5ce6f26149ed15bd448fb98c67c228aaca512b855c1ffe3c9c8f"
    \o "20859634070d710926b1cffc973f7986e7a4630977216e9ece76e9f4a7e6529b256badf99c9011efd39630d6988af3fb"
    \o "faf55496796f74ada842bc19effddeea59b44e9227e9e06f8c74fc1e8c5c715f2188287e057a40b203a56cc1cca2a92b"
    \o "f88c422bb9f3635ca65114451a4f44f986ce03f9bfdefc15ef02090b23a5ef886f0e2289fc8e80b3df2a8b7931dec4f4"
    \o "d37ee915dfb85c0d3606defc072a98d240783f0a3678bc8d4affdcd1804c25d63d93fd4cc38084a09620bf0d53740902"
    \o "4265bb318b5ab3ee6b446806d58dcdb4218e0b7b0f977044e8f6e0bdbd6b881a5a9196f0e5cfedfa754a09cda997f351"
    \o "9556585ed0a6ec17e77ffe48844a70346bae4b5bd3bf6d01eaefc4d2e0cfab4c806c10b52179b37d8825ae5626debfdb"
    \o "8604871982b3359904c9d78ddf70301770ac06acc6c91b922ee0289d9bca3cb70101b811c6aa7d55cc966f46265974a7"
    \o "2c1eea1f243d35707936d5369e7d6b37b9a6442e1ece615d8e752fdf0fcf31ca537390e5aead44b084b2805487ddaeb7"
    \o "8e3170417b8444d1c8c614b2c6c80e2b1b29fc99e21b37ca8f6f915f0e8bec943f9d52f930f9705846e409900acd8be1"
    \o "c5b2e75a1905d59181f98b5273c1cd2c8fcd7f40072235c2c28ee907e4ddf9b9e998d0ee1038f0b57178ba0a535b6a43"
    \o "9ccea098f92e2339816bee069b2bd6c0831d03bf330c16a3b156d1ad46f5a1b473ccef038216858f888564e8ceaf4915"
    \o "7a60968381fc069ef10637ce3f665edeb2fff17b85f1115be064a114e040015cf132bf2ded84e91e4274a3ebec3b9605"
    \o "8f3c4be3e48b9662f179f2d233dcd77fd70a39d1729135bd231b3e146aa8b9e01f229dd06471fde4712ea6b350e40d54"
    \o "12926185abd0d7fb3d9a80796da79a8712b80aed3672d6aeab6286cd4d82feacc8b007ee1f525265e5a3863ec6e50df2"
    \o "2789d059f0836085b753a1eea4b9a9c4a906922f5dbe3023249a458440cbacd0e201552223231e1ef7b103df77bd891f"
    \o "3836e865bf268ea0f3d74f8218189af465f42986e28af6047cbd1f5a29acf1a5fd68373baaf719f3d51b18153945336b"
    \o "2955d6f0b4d19ec16e7836a4fe7b8ae483feb17b6760136756d050cd6bd8c676321c52965b4b1b75518ae452179a071e"
    \o "b8dee0815daf106d04fcd5555685d6248dd63cb9756b728970c1dca1b401ba8504a10547626467ba54dd0ba584768b8c"
    \o "9fb9af504ba2e16183239ef5f5f554ed10755c971ce3bc0cfc2e6a59eb25f8a1c9d229503a828159f8c110fbe05b3e13"
    \o "1ad2d5f115850a0343fc0527459c945c0a227385e7e8f9f6c76c603f2e7a26e9453bf491c17a9262212a8d9bd1dcec53"
    \o "6c18d982d97e967be9526a69ad0c9bb6d1a89b37f22d28824234335467ec326a263cfa5e895e8b6beb4ed2e383c8cb28"
    \o "9212824c7e9ee51db34e8ece53b9737716e6fec34770a0870eba0ea8ccb1c51db02e3d8d2eefa2796ce193c2e5316960"
    \o "1289bafa44d82a53f037afc6044f1574a26aa0ae16ac4191cd37880e42b387551570266b9bb183e1db31ccd238efbaeb"
    \o "110e2cb643b30f66dcded2041f2642aa742a806302f4b34256d2a68cfe8ad4a18d959c316af25748ed3a32a8ea59679a"
    \o "449274d29f27f52c2114e0680b0f873b86e3e726b5a432cf3d0a270bf02905311c0502c6f81e54dd2954ba5c430b91ed"
    \o "0ce5af692e5f950c33a71568eea7bb644fdebbeca0f096da4e14d57187f53dddc26e7a4234b3ff604a3adf99721888ff"
    \o "8005ce74ac127e932d8ad8c04540f42658d50f1bcdbde74704a65651fe977c56401d68fb0975834003edb92004b8157d"
    \o "bbab27f681728a078d118e37fa6197743080388983a4e6297989e9d03ee4da5aef44c0d572723b9c1b35411ba887ae22"
    \o "d1a4c01ea66d58b56ea330a1a81100a17eb86c578bc08311d5a9422ae3838b9e64a149f5f86664ae81b62bb54ecadea2"
    \o "b00fd7bb37161c16fb8139213ac4da9a57bb7d9732d90dcdd510bb04e1c60aa3b4ebf4b6ba958810a2cf62ba23c49cae"
    \o "679a44ddfd4bd03058f92deafb5c9d560dec6823d644de2f213bca7f03a63966121ae3e6a01d616fbdaaea00e13e213e"
    \o "416e99b06e4505f529ca862d0e2ec40a15a0cce6aa4c5c60d75d6769618177ffdedb91098185797caba8b9b3f88ede10"
    \o "482cc78e99498ac43e01aaa6b153d69c4b05e1ae0b94af3a759eb5592f733b052854142444df96ff72218fdc00ed6b02"
    \o "4363e5d95d385e06f637a46854348156f8fdd208fc2325a98c0d003352d31e1b3e940bb408d18011f735efe6e1e437b7"
    \o "4f3e885e37c60e985b4915612ed6541100460d6955d85e8d61b2480c1579da0a79823eb24767e1fa80b5244aa7f0c99e"
    \o "33736dcc3f88af5981365accc6b789ef0144702b17420e9443a08f06d129d06716fa142124d4589c66465d28963892a7"
    \o "0aaaaf8164dbc8d305c22d3f4cb59aa74de2f8ada1320b9d3b99687015a0a8ae95e8c93ef527b5c28778f742da6e6d8e"
    \o "c0236e4927be9ab1a854c834e48e9e02b74b589bc8b6eaffe10c167d98b81c6663b759f5c3a9e889537d9128b87e4e2b"
    \o "fc1734987e8349042643379848bfcbcfb96245d39e6397d4a4aa07b4250e7b340b35b1ded329d65cd5d5891fb70af5f2"
    \o "e456559c8352bc85a098d6916de2fb1fbbddbb9bb3783a7ccfed943b816b233223a9a9dae8ee65a18614f504c0bbe6ed"
    \o "811e76169187df42d5be785ad01a914ccdff5a1c041dcd94d38f8c45afbc9ca995850e21cc4793d7e4907d49b6104b84"
    \o "aed23b0ff4c18226b17dd255a4946d153add652715c891ff07fa22f70ab7798822126540a31a49dd5c57532bf5a2d879"
    \o "1adbce5d606a0debd5f860c3738e0b778efba4420cfff054a0b5586404d2be09a0506098880cb401ae4001e33e9b768f"
    \o "7d42646f4387ee7b00d9353474fa9412cc35e83411f2d44dbf8e51aaeeb89ff180c2b5f1e5d9fe818902dafc1789819f"
    \o "a8c7d9e086a74a6310e8ad01bee80626bc9e28ea794ec926408fc146cf28f65e130f27b2d89c36b243fb9fbc3c1ae917"
    \o "bab5b373c1a624dc348922d73b1185d9bd65680ca661f62cf9c9c67975d8d8a47e736d5fd874bc7961ef7bd113a5397f"
    \o "7aa068f1e91457dbaf06bcf7498dbfa8c458272f0bf7a4bd9df2025fa1feb624a48c1d5c32c3244413d5316f998648e0"
    \o "25bda65954ef125a41023aeda6caf4a3be437c7bb16107f14dee48129f03bc5a9158d4a8222930ae03312ead7b7fec4b"
    \o "0f877ae37c5d42dc44ce4ab3f8f659acac084ba5197a14e2b1330c3f37bac233acfb2d5e7d575d174a7591f2b578909c"
    \o "843baee9491961a176f4251e774510ca776200b5c4653cde1e563408fe48ef63e4c717fd8c90473e33020ccd4fc9e918"
    \o "fa6672cd15fa8b65efae5d4e7912ef4a047b2c104a227f39757f1cba13932904d1e4d0a381b1c025f7d5f124fe9eb4ad"
    \o "730f37f1fe749e6744c6b89563087e5235b7e448eaa3556cf21201e4ee379c6535f103001319d42494db5f8f171e1a8c"
    \o "24491df6bf5b411b86292bb54305e986f3e6ca735c0bb40f21f267e29a762d54d1f9bdfea1b501d6823d11ed4791c2e9"
    \o "e30966191cd86fc1b40de56d5d7cfed13b3bf4bf7f7595b5e5d00a4de04b0dce7c73b6c964e27602065b8c3528b88073"
    \o "00eb4e11f3308ce57ddfcbc9ae7c8f09736506ec67c98fb94d4ca9c7ba28a679240563606a8ad9cb580dc5ab60487e15"
    \o "50ea7da71ef3ea44d719618954d1ac6b00721f8453158ce4c0301b21569908f6d6cff71865f456aa1ebb0794f09c0afb"
    \o "ed2879c1321c1744b688b66103003005e6cd10f1bd6a996d4a327e2d40d284065f49f0fc10a25b1964950dc263e19869"
    \o "ffb0dd9edeb67ae796d4480f138efef95c57722eece807996d94dd6dc172b29846709312dab079290c5b4c5947d7df79"
    \o "1a09a8400d36ce2cd5ad5360a97766fb491e99f5a28cf7b1ef82d1a3261f40df3fd3be98f895fc554406c0536fad7936"
    \o "82ce786f50cb407a3099f271c5ef5cfb5f93d180c8ff1c38f4c73f2b6d80de7ce25f4b1c076d490acfdcc257c2fbd8a3"
    \o "a182632766692158e9d625c9e02f9a72f0d1ab568ddcf83c8c9a375134145e87b835e8a514a0b00b0caa7612eef795cd"
    \o "bb7b738e692fd360736b96a09d6b023fc0aed9c523797d45a4fd57c5de962a6d4944f2ce7c4ea6030c89c001e9729f3f"
    \o "ed4142ba8cd3e4182097798c2bb71c6878e10e706a34b37157fa49e5482082314c3ac6fc41785bc6bd313beebd1e6912"
    \o "f9ee8bc8a71f11b2429a707967fd5499a7ef4f5d3d1926ac4d039b727bb1d1248eaca288ab3b74fe64f549691ea77228"
    \o "2ad64ce9a4a915d0296259c8133e6153353722358027a2a2e7ecfd0ccfd3dd727f405bc88ce621ef3853933d73f6e53d"
    \o "e8009d905534a034ff18fe33c25e114f73309b956d6b987a23bc91528c3ba859314197753e7c6567173910e32cb8d14c"
    \o "578a60d88e4dc3a31751f57951bcd77a3d3766425e49422a4223b8aacf321d6391d277f233bf9157e322e96d0524137f"
    \o "bfe98f8cdee0a84369ac0f036201a9d369f44612beef67fb862fe23135c2e229607a4732452e704d56947a7ac08a58d7"
    \o "0fe321ec7f867d5f470b4fad9304106ef7ba38b65c327a6d203943f6afcf0e7780de8b3e877b55cba12f3a94ca51e152"
    \o "dce47b21d93ff71637495c5e17b4834c45619fc0e59409c13f9aa884627292f866567bc4a5529b057223c68a6e8cd94e"
    \o "f435a5734fe04802d9435541d07884b7df75c883f7d17ebd05955fb9209342ca08411c076cd9e62ab5a29061c3813ce6"
    \o "e54c5de6cde347ab79281c19f7e147fd965132d67d652135000bb5f912b92a01643ab9e2ee241c43ed448d4eed9bf0b6"
    \o "d359d07a8721ecf8daff9a0b77d8c569f8e4cb5c72ee6a2e3f9b6bb2c879b6631bea705e394afbe92785579826edf1bd"
    \o "85b9c09af8cd9ec3ae9c78bd1be03df0f1058667d34d1c0db8c3a4d2b374fab6a5b89b2fd8b4c831c3c9f7e3e5174ebd"
    \o "7513410715c2c81a8d2f29e7c6e0673a0a1fb43b0059865ac844b8fd202ab6fa3b8a27ba91c3098ceb7fe26b099f9c9f"
    \o "a53fddc9b70ba8584dc4ac8cf662222e20c26f71a060846c4075916e873b9903a2e3f93a6ffb726ab2d643a2c38b48a2"
    \o "1cb4ba55197536b11202952f4ce3b0cc86417b60f18bde0e953857d731135de9635956be42c927b9393cbcddca5d5e7d"
    \o "99df209b004b7fd002ad9d2b89980c504d307fe4ff125eb475efd23347529194f57d170950fcc626a502e8a8d6e3a71e"
    \o "e23f03cc3e0b25cd79ad899986ba22dd3c19c3158c0856a43f3f37ea077ef32af5ead065696c63d6b4642ea4a64f7613"
    \o "4eb19fca0e28b64f0593dba231b1891a7f914286e2856ec6aca99fd0a5acd3416b86290b14c2732a41db898e3a53c176"
    \o "aad7c7c06ca06496ecd7570b5ec69be33a0ea6e17e318ad608ba9bd9b2217139568a8c29b7e49f366ba99d015cc0ff06"
    \o "aebcb0aa6577bb5432b558fd01ba985acc0c66824ac7ccc3bd37929dd85bbb6b813fb5cd114340ff348934987ee5e857"
    \o "f848a956334e51af4fcc9a5cc40f3609d1ebd08631a59c4a3b1649437711b75738b079e143d87a97c2ae35d2e3ab6283"
    \o "4b80b8281be7f3cff3b17af09fa40dd67eea6fe19c2f67232ff3c23ce57f7691392bc5527c2c6a876ac26ae0e90fb651"
    \o "aa50b96f0e71597af2e2054d9844f47625795c18ec032e6b64b9cb1c0dea6e4e3683d4bc060c8804f95fe8a0989bc9dc"
    \o "245448c86a56aac30d456be0b5b94af30f6506382f217e7264b0bb14731bbc41e5ee4c91b647e8a8e2328994506f68ac"
    \o "bb93c8eb1cfb0a06ff5e1d1f145103c7ee7d0ae22a66f913544940e130d0a2b82f7dba08a70828a7ef95eee886592243"
    \o "bf0e11e077b5abcb082a2f4d4fd3e758aa181345b9b253e360ed33a0d6d106fb5fb6d625fc27d68354ea206171436e1d"
    \o "2b54af771be4a5db00bc22cb1407ab3347a164e414ace1cb59f9bb796b911f97f49c9ebae29aacea1fab58848fa624f7"
    \o "f6da7a63c2410ad13518537661502dee5b4c0d73c4cba038d252a6174f06e95ad26f1d76cdcec4086eb4fff8167774ef"
    \o "0c9c20efb48bb0757934f0b8321a6ec15f6a35d98aa1a59ceb64c5c47243d47c316a2a1252c4641b5d3f69cebcc0fd98"
    \o "e5a15b79797b153807c0909ca1b49bf7692a4f0e3f7dc86bcfd3bb74a01ac23ac4445aae679f2d9e0a68013d602533dc"
    \o "08ec379a76cc057310053d2ccda79077eb8a25fc0fdf7cc641cbcc3a31e7aed1bf4e302c10170d2be6077d799b09ab55"
    \o "56cd42d25cebe21345b669f755c0a74df52b2549f429c6229df24d5e0b286c70431dbc3fbf168da7b77570a4b0882411"
    \o "5105122aec9a360c468fb5964c22cab700f72d3cb8b8f270c1726f0698772790ea9d18b2ce3fa028a24c8407f24d04fd"
    \o "f178d77f10b99ac90635afefd375eff13bdea8c31b757b2079a5fd62b72fac4af4ef6142773afe02f4337bd1c6bf4fa2"
    \o "62f2a21bca30421840449aa0e9de04796e106c0ed096bfd67e544d5621f91a99ed97ec767f1d490e2ed51b12023a80a2"
    \o "cd751e08ee59b397bd0d8cfe4da60990d2a0169db12e1de2c5d6d5e926bc98589b7503623c73d5f453eab031dc7a615d"
    \o "51cdf2f975f5c1a05ca2c132c8a94814c841721e9880e88b143a5180830ae19e3283068964457ea4c0bd1d8428f1a81b"
    \o "3f4f8b9d6862bf79109257f7a648a58c08ab4ae47b50079e8d76d7a18b6bfeae5364e64d292322d3faf20ac06d32a901"
    \o "e22b64a61aefca62fce205cd1279688c43cfeadf9fe5e39915866ffb3555d6ae18af266c6bca9b3f7f9c1321fd09e37c"
    \o "b5b39023f8dca309726c2c952c564d563bf449fd2207c6c06ab6114f75ff199d9ecc7b5fe429c87cac9261f13c2496eb"
    \o "bf7b6c6c89df5e79d8d4250dc61c96dbaa17c57cc272f5a71f04a6ffc79dbc12d74355714b3e90b74b354e9347868e4a"
    \o "911f52dc4485c04f5f7b07b84109d8d6bcf1fcb542a5516232fe1f36707c5f3d3f5783ea2f8c6c083ece9f2c3c49fdbd"
    \o "27401fa04806d26fe258d268e8566431940a353730312932538ae1c1109700466564d134406c6132fe111ebc3ef68756"
    \o "81e004fb86bc2b993b3bc813a64ed996cef61d0319bd2640a74068b276c32dcdfdaf4513097a59421a327537012664f6"
    \o "798a0d59e200d218d1b0b70b3b2a421ad72eb3a172c39a28ea14843a5fb65b550a5527a2e07b59d84b2e72453b9edacb"
    \o "1e84fb360ce66f733087de3599b9ede7f9143ef5d3f2e52d954c2fc131b4932cee1fdde0133ad73d5f4aebeb833e469f"
    \o "ddba85472d819d3872f920269a60f919428bf773c6664843c71c588caa2d6c38f2198825019f77811b1466f6a33066bd"
    \o "989d181cb5af4c8a9eb4e92e5985ea3f37b79c4809969e7c5e63af16570b534d2430ca6d0b4e7f7c3437ccaafff7ba0d"
    \o "414205c609c9d5929973cf5cbb7352c1a6d21040e9f8f71f3414c2dcd0930b6402e9c9fbd19f0be953c69b0a68b3e3aa"
    \o "ada65cc45f2ee40d2f65ab4e9efac2924fec0f4013f3887034128822080e31b0cb978be37ee14b908c4caa837bc71df3"
    \o "1032888d687dd51219f48c75cbbc6c9465322a48a9fda2ef8cd5d1872790bb01a3a16d9288b409c81755c6dea72ed508"
    \o "29e78b0665d464fdb2061ecc456b312c68e7ed23fcfd36d148866d48aaf5a86e4ebe98806af7ea31f4042f1e0d25f954"
    \o "4ff6f2c5bece71459107756fe239d3d75b7042df6a01260f6a9c2a3304a99e63dd3f4006c4440054ff2282e6cd5e4aa0"
    \o "5d20c6a6a4fc8621327bcda36406f458ba60491e67ac56f83423880bf1261642018120f86f25630de6d143182814c437"
    \o "6c7b31e21d10e931d203acfe172a390a67fde1c393ea6a94e201aafd5d5ec1ad75fdf37cc5e6e62f299c858d21460c5a"
    \o "03cc2f9b0d3be8ee8d323d9e247aabb5a402bb72ce74b3c4e8e84b0d658f62d116cabe3292a73f9d9f48250ded5ec904"
    \o "5eef9b8bbcbc58a381247dd42bf397752558d6c05912eb604886058b296cb08c856aab1d2bfa1f10eced8ded112d4095"
    \o "1bd9d912623c70ce7d920a56c0e908a8ce0843c2caca003cf78530bfce0175513284fc6f4d36a8ed206c2856d658c99a"
    \o "f16d68f30b22a431f9bd6bbbe9ad2bc77b949e545084c63f0da9f44a9b8e9a82ed19557aa2e8fec0634d19521617643b"
    \o "e77b0475b659f7689ececbffb02ef5f7d31615e5e42193072907db86a3ec4d32c92bdd5adb49524438d9e9ab9efd55d2"
    \o "678c4cb99d5ee2f9d8aa7be33234752bd445a53e791397a32ed6d46090bfd79237d7d1900aadacf06655b9f0f044c032"
    \o "84949aab280f005d62320fa35bf508a01f80a4e826437a8e3f3f4072f87f4a4db991e961d0ce6bc4e5b5206e314df386"
    \o "0a857746e244d05f8ff5ba77d7ad18a7c1e8fb16ac18cd4e09c2cd73aafb4294d6948ded52fef4781e239eb463cc537b"
    \o "997a20be74aaf3408cd03260d958b1e6a085da1fc730a7cb4e640cd4a626b0976b89d4634ee6f4ff9526e3d03fcf6d85"
    \o "6cfd494063a366aaa8a9ea625e1134237260ca2680ea83977037e0342dc378f205fbec3a00e5e8139e6fb2b7fc7383bf"
    \o "7d4ffa0f771c23e13c39679d7262b8a9c379023e9e5af2a4c7ac6f37d1a8088875526e31d627d2b82df83c66cf7eda11"
    \o "7924dede667cd60b1b69567e112ed1df20e27c175bcb93706e3bbc975d866b34177a8334cd625a7f7124c205811c8fa7"
    \o "8299ed6ea8376dcd0a6fb1540a68253aa2ed89622159702b150dbf6aec1072eebbc55c3350505652c7132891b86bb4d6"
    \o "82f0779d1478c7b90de44e65c086ee5381012ad6e516093160bb9aeea71a56c6f36c1575c8c4227622dd113c069e87dc"
    \o "db68f27510fe52d4ff01fe809d373731bb69e1f0b14aed54d0a326111c0df6453196cd4421b1aed2fb52882fe2bce763"
    \o "7deb30ad49b29bbef4e64fe6cf9d5d05ea81ad63cb8389fb2a44bf93afa6798ac9d35f16b898a70cee3ab808389bc3dc"
    \o "10c5ab83d541da5659d4697f9c461992c194ff5340918a5828a4fbd752e71cf8e58376fb9d106a374665ea19e7b227e9"
    \o "d0cce89374d6d11f24c1276c4110b8bc80915aaff6de2fbeeb7f14147ae854843554ada89785f4f8434b4b949da968f2"
    \o "8189ac453cc6314151af10745f4ce302096de42132eddf6f2e9dde736749831429465388a2f65e36efb828254737fed1"
    \o "adff816553ec4b93e539cb166078a4062b32ada9cac8a61cc8ed321343abd7ad1d75cc23c4ad100687dd58d90c6f2fcc"
    \o "a2e5c7d7dbb8d36b5c1a7c01f755edbadf79c9ee73fa56488e2048dc857de96d947dbe2db050864ee1edcf3ee566e133"
    \o "1ac7a46c40852477fe3245fe8923b7f6a1390385db4a18fc64edfce5bce88796cc3424165f18690443c6ed1e60307b75"
    \o "fd914b0e5e73252b93cde609256d10825c396f5e54b13301c3bf64e914d5aea471395e713ae461552d3fe2979d892098"
    \o "be5c3931f53e2c380c5cd43b4bdfc851d1e0014e841f92ca40ef5ec24f60e846a3a51759f748f931fbeb0a98decbc10b"
    \o "95fb98f9edaf80f3a9e82581e54e19e55009c0a9bba86df700755f64bf433e0308a6ab0f38bd3c69263cc4dc4a7d1dbc"
    \o "9db59658a02880566ea6d05e6aed8872833edd4b5d359777e542453d0c3b126621cc47517d076c0b3a2db00a9cce12d5"
    \o "a7321d310bab5f9f05b4c4250decb3b500ab68b8912eda415aded3ca4dc1d3271b3a953c85e9251c5b6e48b088bba317"
    \o "3969091969c9fef0956636e64d187e3e96ceb525223be9e734456d5b5dc18bce9fb9d8f6d416b8a979932a50289b8ba9"
    \o "227ee409039cd862efc46c08cd2f49343e5bcce6b51cecef263961d1736b1be21886a7ba104c968aa361bca2250a82a2"
    \o "df0c92b9aa5c6817c83b6269450f002a66e6626dcfc3160143a538c4f7962f8302f1679e0e5e928ca51b453fd2253c87"
    \o "8ff4ef93e486737d59af6769983fd973a5464f6d9416c6107199e0b39a14e75aefe9877284804942bbc81f547e2b86d1"
    \o "3f9d80242a43f047e74c00f4001a2fd30b43b6dd0fc0553188122e140675295f67eee0992f87466e3cd7dcef28c26bb2"
    \o "0ef1f012e967ebdbc7642bde1adbe5330329602a9cd5f2bb8d094979a82409f1f0e02c42327f82f8246b948069c60d1b"
    \o "3313a10184ac8fe69bab5340a48792c581c75baba5c8e5c5a43dede76a4d76e6d039b9639cf99a992cb52c32823209b5"
    \o "4f33b0ee10530be24cde3e5aa03f2a2b0c69e424fe7acde2e3ac99b2b96c1f73c870fef27a594f67b7245d1c89d4ff98"
    \o "01a01d42600a6732d82cba016fc820d2bec49ab4e989da51771ba4ba149a3e17bde3a6e4a7d0e59773d634262ce678fe"
    \o "39d7c140ff21dd5a1af3bda542ecdcf93b77cbb4a4de7a8d09eff2b41f8e652155e4615be42a872fbfe95413ecd87a48"
    \o "b1f2ad8bf15ea89dd867c46643678856b630f0050d72cb974417c530a2c81c328dc508c6ade256556fa126a8af8c3e74"
    \o "c9d7dc2aead28c1685f35c2ef8cde59b43ea74714bad8e0ea45a5209edb6ce85f71377dce4e8d8d2378d04ea15de2868"
    \o "e14aa46081e6d6c803e5f6842b7604fe42a78500e79a95aa3c71a896d77b26d3be6ed51533e92723f1d7b8aa28c06f25"
    \o "bf03c644ea3ab6d253add8173122c815e1527ae463825046541c18d599ea45143d3a1902612390bae85666f3da17f2fb"
    \o "a1754ba6ebf3153cb15e27e6fb4e1d36aa4cebf2d76de60bfaa09f65894e9f377830b08378de3361d6f7515187d69991"
    \o "b2971b7701a23b4edb869c8a06c9cd956fed41d7f4a88753b980ea1e3bdc2efd9201d55ae27f8be84ec8c223ca092b18"
    \o "36436924643d79f19f6428ef95d8567513eadac390b13f30e92984002bea714d25042c3d086d06d806e315e31ca505c1"
    \o "1b4f463f9f395ef1edcf975c296c764d5848fc64fa376a6e244fbafcb363af43075b058b07e7166b0aa989b4236e536d"
    \o "b14fe2d6a4bf58e7a245d6580aeade9bb26f1928115d27cfbc9df5990bf3d0a710d5fe14db437386972939b0c3034515"
    \o "5d082eea33061fbcd14bb7f5f45eaf1cd1cee71588ad4972e42af0adaa069dd310e1fec9e134f9f8de27a24ec17a4f81"
    \o "ea16b18fb6143f78f1bf55ed624383621b6bf2733f1fb24134aa4a20340252a61caa0c4808ab171508d0323cf30224c5"
    \o "d903ff4de93e9707cfe07a63c0f621ada259255916646a40d337264bc05d7b62a1ac6036a1dbbd894990c2247a243b32"
    \o "19918b8a21f59868190d78d3cabe5e52c1e299a3a5753d8b347a73254b61b0fd51b315ec5625e6716c7be37e42db5b4b"
    \o "055ae98e59d4a28c41b73d54ee1addc84858079e0c647801b73c30c8c285a8c65e36d760e90ba8875221cbdac4ecbfa2"
    \o "f6c8a64a9a1d387680f4edd879e08f86d9f3dd4549a359649e475394bee33d4a07ee64fec9ff909069b52fc207ffe38e"
    \o "6fbb28f384c46f72c5e50641192a282958c6aeea780c8fb0b46490350c5166f089b28a1890ebc2c33771690cb6e24482"
    \o "dcbbb757d3eca7511744897193151cf9d1df24d0498005252b9d73646fa176ac005522938607bfbf33b893a549d04ce5"
    \o "c31e4b97c021fa1bfa5568350dd09e51011dd8b35909a9587da69370187f132d7dd1e6c7b1f925cbcbf93e3fd34979b3"
    \o "2f3ca661f7978c5f7e9ce77a97b1ac9d58e1290df50b7e1dd4f3318e83e03b8d42b50c7c93f84adef1a1750028ad5dc9"
    \o "48a28354d0b3a17536f784ccf033b915b31110c83b4563c77f919c892a7147ea1c23edeef04f6294a2f3bd5dc44da161"
    \o "14b4b8d87d83c1dfc9b4bc96fdb9ba32b278f8018fae625ec974732b1ac44e92a0c02a35539ef49c5b09b845185ba663"
    \o "66b9aaf9edb27a0f65047845e44fbd3ee3f1bdf6bec6b7ec160f6d6e6c10b601e371613ea55741cb0671ce235f381d79"
    \o "34c411c34d9aa6964360c66a6d956563e6b6122f8b80fd3a804dffe82bcd85d2611a245efb7f36eee24c6c60a17870d5"
    \o "3bcb9bcef1a4bf3b75fe1142207b3de088134e5e98162c67c125516bb071b0dac0c3ea0c9af8255ea573e8ca08aca106"
    \o "5936578394e27f7753a000dc85903d9727c37e56de3521afd7d5ccbe73474aa9a97f65bd8dc1a43ebdf2e07752c602e2"
    \o "2b67a9fd769177527055114eb0665350c5ffd93341d8b452944478573b246b472045464355848bff7646cf57a4880c45"
    \o "e2979619b25201e93ce9a9af81f8d9df310afae04479c0744d2f9bbac1364fe5b402b288d3971494d7fa41b89e097fe3"
    \o "27937e85b92c8dec27eeae0af98a5a343f617877b92101a253999ac89a57555585ad81d7593ff3df293256b63c787566"
    \o "53fcba58f4aedd02307438e642396323f9a3500bf478d090ba8e3338feb36d431a0ffed52a23534af65ee8fca86c1fcf"
    \o "1a04f2803207d5a3625d165b26a55215fbdc773b25f83e61cb7dc45a4d56c5aebbb910474c22b1f46f571d3646191aa0"
    \o "323991af1bf9b683a352b6b5e951acba1b5bd04247e2cc3634d982fbe29f9ecb636a547976c338fa08afbded033ae330"
    \o "66263f9fdab53738ca7f41e36fc04d79b1853dc038f2a031801fe30bfb1b0902a1e381f94bd4a21c7699781905a97aab"
    \o "244dd37f41d8bf619a8ca891bcfd527b679b4bba01699af8bdae9f933e06571be872f15cda5715e46e1656d0b37f58f4"
    \o "92f0397596619afbbfc5056ea5aef8a66bd0cd12d89308823a8335f8aafb3717b8e3621ba7094548e14cbde5e0aadaba"
    \o "c628087da445f305b33858a19571623cda39c4ea3a85eed0adfa09b02e771bd6a43be3681fcc96347432f79d6eba35e0"
    \o "5021b4204282c843a0d6c1feb35dcf68190dcc94e50df5236b699f073e0dac1cc849ed81666f0c32b6910780b66f47ac"
    \o "a12e6df3280da8534003ff33d974fec56c6fba967b9515937487a00c050842f59f1f2193dbc91d0468cacfe684ac2e30"
    \o "acdcdb5fa93e0f6fee216a55df7c758b2edd27f7e4fd960ea78ca31e53fb51b9c736c45202b8c92a63826536d4f58692"
    \o "7d662a32e87f44b1f980aae31b3bb89009c3e7c0405028458b19a2b637c714cf292cfb34b759efcfc823802ff38a1e14"
    \o "f0ca5b413326d90f84eb99bd5924204319e0d64ad8df71f49316658674efd7648a814a783479b1f0b7a0b78579c9cdb6"
    \o "831ef5c3041f8d71a3a6a0a9cae5a871d43861ce5eb2ad7e858d5cd257c52302690c9bf8bdfaea88f2ae556f74f806f2"
    \o "35c86b78fd82db76af323c2d2f0db088647a6c088387e0e4c3406a1aeec4e7991f55411ebaa6b8e6fc061e1f9d2f4116"
    \o "5b004753a337b5a60e7e899440a111b9463c465061c00cbe6651b3c40fbeb71603682cec133f52436b2838e0ea59fdda"
    \o "6ba8f8eea0e99efbb2c0b0bcacc534665a24dd3694865d8543e15c551bf85d11397411564db1df93bdd104d76685b4b8"
    \o "f09f5791f41e74e686ee7b4ff8b44bc2380ab1d7fe85dfb1cd2e4676f5fa5d746457abc6764d4529364678382a1edb8c"
    \o "2119c05cedee65efc6cfbfe511a3199dcf402339cc63858aa261621f3173b8d9781ac78fa4672c0c8fe2c3f4b8801b29"
    \o "39da457ad08c33c8f6bfce1a257185b55a66d71aaa8173cfa3882a8ad4a8b1a7d198e3b8cb95f372d0f11e0569cd2483"
    \o "77d5759dff02f2b14b5a04b0c28803f88c5b45dfa64cadd5200ae258c7a4084bd5704724782ab4655ad0a51cc89994cc"
    \o "d9c57c3c3aff076f4475ee53b44678f9604b4496affcd24740e898f2fb9ebfb86d152eaaadc70e942f96781f7b481ae2"
    \o "00b09f63ce311752b8c730cdcc858ee347fd7d465ba468813eb62c1ca786effc4d4417ea5200866c7ac3caf87c23aa42"
    \o "6db1bc289f94c755a3262bd015de2f14a8c58dace5a2ae935cc8512e271ad4c0edc100214d9c7671dabcf00462969d5a"
    \o "0e9bac3115d4e7c2d3f13f199088ec8ae7e2e607531f98d1c8b6be1ff14f10cb23f15ddf87d88917d4d1e969585bc3ad"
    \o "a216ed03951bcb2603d61cbfa845063a02f04abf35b22427f3a71b00126e90a3a7ecc7ee4b018c9f4001bd9b9bb308bd"
    \o "19fcafba9417bb43248a1edfdaab23023bcfecf92f87a429c6bbf65873b3a2cf58b08f1fc8ee3c6e2715818d3562efe9"
    \o "e772436e67093677caab2b8d88d66a762afc54b09c09119ae4217251b0227a159bbdf2eafa281648c8020ffd1724d5b3"
    \o "ab200effe6d20df9e4d7738a8c6a8fcfc9bf34caa2f7e7f9d6bbcb674c0b0f703286dfae7e9508cbb15adcf2368dc5bf"
    \o "87e2367114201d4dbdedf0d4d6db010670472ec8abd5a1aee1f77a881df2712d8e18a9291e50f13443b5e6706b46159a"
    \o "3bf2f108d3b9cd9823abac2e79265fef7e3a46a38ea4dc660ef6df4f7bffb6a477937b86e7cc721524f8c385b34ed4fa"
    \o "7dca92023f1efd5b7f8870a92a244cae8a1f7883997f7df0dce58d7dbc0e086501b0fb6a290d2ec3d73c8a36521858f4"
    \o "77cc40dab2258e57900485427f6323a3aa5122f74bfc3a30d72f537c773c2b1a5ffd3d406d0227c26b379413fffcbff7"
    \o "f5eac4c1ad0ad387134d2c812e367dcba3151d0c5c418d05a2d92973a5826fb2074db5fe054367ba9c13aef30bbe27a8"
    \o "aebe1773bc8df872ee7653c9ffbd8d4a5498c004cf0061cafb518504180ecb0d82b85bb87bf2a7f57c13b267c1d6023d"
    \o "e5c69b8e24fd417208ad794c369ee145b7daea116a643531a01235b8207c9f6c56aeeb42182ee0e5dc97b77ea8b5c45d"
    \o "5dbc8d6357602f21797b0779c74d59218689a21e8ddb2bc1c5445ce8e98e99de35f217b048be1fa66f6894cc578a628f"
    \o "6c21a8d6406705078dd4c0f70d7f139bd3a43d904a059e924afa5e695aecfabbd3e661597e651ba5675ad461556ecb72"
    \o "80f5b4a3fbfa3797458dff2ddf7a9c9981a5008a58457b3af9994f18341aa3eea79130517e005bd9cabd4f531e308b51"
    \o "54b59e2d313b259a512d126eb69307f84c99a6af20a879329621a9d3f9061ffba2839f31166b6525c8c259a2ff1a5c0c"
    \o "0a40c9e8661ce41cb90154598de63750e2b6c50c67f186a28b9f684a92f48d210cb91cbe6602ec124ce76f141bc6b08b"
    \o "019705ee0be0a71d309ff5b2d26c0cf8ebe2eb3b799d149e9bd2d202c417857da873af260f65e8f4c9fdac3d80373ba8"
    \o "e8ea1b438b2ca2829c9affde60446ef69ddffec825a52d39a076e64bac77a055b247801db06a7c9198a7a86fe056a8d5"
    \o "ae54a836153fb2cd36667dc90a1afaeaaac0a780a2330a6775379466a0123246c33ea73e2c84fe8119f2d5ffa9e2fa40"
    \o "2e698e5fde84465a09775df36bec1ab7c647ebd119c14c26ea015583ee36196ba7dd192b036feab95e6e383adf3648fb"
    \o "d2969d35238191e9c95ab0504f314b008fe5e1abb5cb42f6420c7738dcc98e434d5284b52f4d80516bfa153508c401a1"
    \o "5187b6ec053869eb6e40b88590fb2d7da44ab3ad940a1624ef115a1be9f0ef410dfb6f3a7f6d8839914829fa85abe2ed"
    \o "0a14c579d32339ae1e6cc084c6164261cf71e7f56bcb570693484239b21a30cceb2b50b567970ab1724bf80b11354113"
    \o "039e0d8bae120a3c631bcb099807633c978b6641fe3d856bf00e60f8a8ce4082fb14b19527c17a2679b6fcb9c5174a9f"
    \o "69942abd8c7e80c11a1f80d1153a8e30a4fe556178e19be63657c7bbe551550e26da053ea07c30a803f9c73e6d4fdbf8"
    \o "01397a29026348f7af0af748ab5b95f41f25d23dfc94fa42f7629cb0dbc47e5e16904beb37deeaedde9ac5ee1f10a0b3"
    \o "2104142878eabc3a048d09c846839f5bb82763ba91a94fac3e056e80736619a2bbca6b41be845f952ffa1f86ec3cd40d"
    \o "0cd5e3e35da9e5c9c6266064bf4b3d45b6ab58cab1e13663db01b9f22511957ebacf0bd8c264ab931594011e4b0b708d"
    \o "a0ed72778eb7980db5906f577f83453375e88d7eab670e4deeae4612e3d77f014109752ae9dc8561f6dd60150d7b2ea8"
    \o "b79b14f3082f1a4302eb2c860f8044a803c55116e2220a7fa6941c22afc79745d13d6b969e43e9331465f23363922438"
    \o "4fa1cc6f4fffa8e1babcb4aa99a16b9e2a7ec806f52bc655dc685e91d5bd01327c8005c59be4078c0f4dad8850f7b168"
    \o "5e18c712f2e1eecd9330ca45ba4ee77a705033087844f240ad47f8fa2a9dcb8725189807f7630f70cc1fd5c71de067d0"
    \o "5cfef954f4324d92a5176da029fd96b2a13475fecd45f31a6affbc9a7a1a329362bfb10ec7311fdac9472c5973e7c95d"
    \o "f1e6679545a087c2c8dd21cdc13897b4911ae38d557985e04ad9f59847a7fde00f85f59b9f316305f954dd9ea6a476a3"
    \o "b4093893cd4b9ff5d3d10e2499933bf75500932fde9b5dec9b1737bcb9c81818fa3a077603f7d891d4cf50a726afd434"
    \o "99e42264d526e8f94f0042f595acd14a6db63aedf9f4886ce35c18a03f0121f3606de4eb6329cfd3af507de3604ea2ff"
    \o "9a0e63e2c57d72fee567dabb3bfe938fceb71a8f738665614886f572b04516b7006e6da2524f853f4356e358449d27f9"
    \o "6c28f618284387ee962e3c84ebac31fbd0e47843c3693486e32ef1eac8789ae00ad3f2d649dc8a9fd54ea0352402eeb0"
    \o "cfcf0196e3ff2dd0de01282afe2a7b12926893ed25a1ba53461af27ff9b1de86d9e71957cc19393dce99b5228c3fc5e6"
    \o "af447cf2c6ec6e3ee9eb79337ffe6c7d58cb5fde88d8c0a515c6b9a68a3c35028dbd9a537c1964bbcc21a87a61b99161"
    \o "334f6a84c9a61015c00c116db8e17baeee85616efb7678d33be989374f3973979b5dae4e0ebc4be5ad7b4176653f387f"
    \o "771f672ab555b9fa34e2d3b9ed0e4528413649b2961d8bc0c04a4a4c02660c0acaaa8e50628da93575b00b158a6243fd"
    \o "1673925189414113ce7bb22b5ae82b36c5acb068100899d13b9d226a65ef8db0946009c18562da19e59d255242715046"
    \o "e2958512d554fc058598853a522c95837a018e0c8194455d96de3dda33adba6f306c3a5a3673174d313b7e291799a7da"
    \o "2e41ea06ce4d2a2ab378f0cb4a30189b5ce2265793ef0704907e897c5be040576709ab4cc796647084685b61db611f75"
    \o "2625748a3f0dd5830b6a8ad2ec30b3c2ff44abde7e46da135fc11cc0ddca8b0c1b2a91345f25a7fea1fb68f176a399f8"
    \o "c98f9bf514ece04c27f9c55d50d7941d98e2e95407c597f7584cc92f47d1ffb984fb1f3f9b6d4eb50544152f1815f07d"
    \o "0898a37e346388d1fd8b289cdeead1d3ddb7951390c2ed6d7c7f2cba9632b0919132f7ad36ad61dd42f803f4eced4301"
    \o "c7790c3747a293f36d0b0efe18dc0ddbf24dcbf172658833c46a6d8897d6b91bd19ee43f9bd541ebf6a5da242182e980"
    \o "4105d9f9d7ffc8cd09b1e1fb56be6d2a337405bffe9f0bb42e44accb60d1d905156a8110070b80f40d0e2c3308e9500c"
    \o "8eb078c85ea049a4dee406e8b4a041f37551e6387ca13fc4f27c07f5d8799bfee8f07f9fe511b411106e7b8cdceb9e13"
    \o "991aff0aa3ccb0a465bbc9f7ec1254881eb2d125b4d514c0f594767517076e3141d772535197044a908182d03bb3830a"
    \o "a40085d316fc08e0f4d7f153ebbf2dacab72de0781aa0cf064a366742ec37ac972c6a297d98592ee28e3f65a5ef4078e"
    \o "f73c9a823c316362fde11576b8808c8338c2c39e2c10514f09e3c3c3f11425e441802f2ff0f058c55a1d63490f2cc346"
    \o "e71aeba58d869707e7920c6d071cfbc9d653e980eb4acb490c0af6364205f27ac94fc1ab8369e01ab5a8e33bbd5480a6"
    \o "a58d41a4c2fb7bc3fc44e14b7bc1bdc00e46ccb319dedb49251174125153a4e3c14473ca017aa281f07b3e8732ee7f64"
    \o "ad489bcebf8b90fa4c7dae5796fc31a0976a45a270f7bc6fc2059717a70b407e1afccd077881754852ec51275f26f21f"
    \o "41cb712f63da31771fc7df735ffee55e7b37569861307c052b27df8770fe98a03d0b8c43cebbdcb724a56eddea0f7718"
    \o "ad79fddce4653d35033aacd677c82d55b79c2b63e99f4a9231f251c2cc81635609381efa282e478ced7c5da0d534c087"
    \o "38761dc713e9d0bcef1919e49e6014efdde374d15f832eb6e3825693bfc43ff723c77e7ac73fa908727ea8e2f53c77bf"
    \o "18d42af1ed0a656aedc46fb962948bfed79da6a305907fd1a0dce604133d4b6373cc2690f8e9643156fbc2f15293a807"
    \o "d2b41d4f3bdfae687a3ff3111d98a474a0d09c625db44741248c6fa654fc94a438be1ce3bc6e9d5f0e859f162e242fc8"
    \o "b6b6a4d2738d7ccc8da9ec93e3aa471c250bc6e7706067abdee7b644263e8db3443294636b134907696a86173f2b7713"
    \o "27db11730681edaf456746fe922c6c73d6ed9fdf4beac50555a25f59cddc68d62af4cce542bb68de7db2a17e1bf702d8"
    \o "516cd45d74c8847be73608617b80f2131d3a20052743314bfa86f4df8371f5f20e8de9c3a18943f6e5212f05c9a07431"
    \o "ab14660fecdbc47b360e7c818f58640b7a3a8394d5d50f76494693681e832d7241febb34c13de7cf339d7cf8f87fcf8e"
    \o "5d4173736e9b7343fdb38c6242f32846ff828a313d19ce0eecd2073d3cf7435418fa029e63e08fb24a17fe936a671ecc"
    \o "e56d5404298586910eb72a15d51321ffb9fa20fbfa811b6d4b246aa024f432adfa8792bfa3ca8d60041a7212712e17f6"
    \o "ce99106f81feaf2b57459cec82c2c4ba23e0709e7168fcfb007e0712ca20ed96d50dfdeaf192ccb586ce625e495125cc"
    \o "2f91f0c55c2f76266f6c80fa0a6158ebe9779c9968b053ed37e035bc46df761b924354092e4177ed2358d99fd7e730ed"
    \o "2e1cfdd8858b089ac53beebd3afcd2aeb62c9dcb2cf5ec78325baf8e99c453ef144ad2a4d4376fb51661392be3aad2d2"
    \o "9bca4f90bb18f1be7ed7cc99c2e33943461d8db62ce1a32534be81ec23151b8d9cc86e0cab7e892db52f9a2aa0e1bfbd"
    \o "cfc3f35a3132b388953b1a8b4edbfef833c955320291be0210d16824b136d5fbbb933a15850203ab687abf5bd75037b1"
    \o "b8be7212ea8f3be00e2cd8ad84b9bda5cf86926958ff062455d0f051482146d2d7874650a3a15d24dd5038a4f2159ff5"
    \o "7e365e8a171fddd203f4367668d61743e903e9cdc352b37e7a0365db221ec3e3df3c49baaa5d0b4b442995fa3f933587"
    \o "2fa11d6590292165d4e53bb1fc57b67c5dfa535e0963423a29da5ad2b3c721a85f04b0c2932df074984b0aa9dbaaae92"
    \o "01300da25b2d18e285131e93ee9f585d721dcfa1f7ff0426840007321243749c1eeae9385b51e2c0b6ef5dfc3ea65dd8"
    \o "d10878d0d47dd7c2dd8f90d5e99c7e50522baa45c774b19eb6105065de3b3ddd61a2b7ab93892b39c0563eede5e61cd7"
    \o "0fab53e54aa27976df700a5f1b917a1df43cc03abb1f453d7eab71d17249d14983688d07069076ac87cf894bcdf3da53"
    \o "898e8dda22662de7054bcbcb3e587e62f7a93fdb16ad95c8394456299e7bf7882eb15ca22afa36451a48ef9f4fd98632"
    \o "401e05488e2c1685d130fbbef492153907b2e68a04fac06e18b2594ded22c330b2ef84f4bd1ea0e831f1160f42ec600e"
    \o "04872863d65b617199722a0ea307c31e93945bed76c4c74f85dd83583d05a4cbb3e090aa71b7e67c1a55552259c775be"
    \o "de9943a6180a3de7b793be672dd111550b904d5445e42f4d1f80266677001ae37e5c0a1d95fdadc9803183c3c2f268b9"
\* the value of each hexadecimal digit
HexDigitValue ==
    [c \in {"0", "1", "2", "3", "4", "5", "6", "7", "8", "9", "a", "b", "c", "d", "e", "f"} |->
        CHOOSE d \in 0..15 : SubSeq("0123456789abcdef", d + 1, d + 1) = c]

\* the number the hexadecimal digits from..to of the text s write
RECURSIVE HexVal(_, _, _)
HexVal(s, from, to) ==
    IF to < from THEN 0
    ELSE 16 * HexVal(s, from, to - 1) + HexDigitValue[SubSeq(s, to, to)]

\* the 32-bit words the generator seeded with key yields
RngStream(key) == IF key = 42 THEN MtWords42 ELSE MtWords7

\* the next 32-bit word of the generator
RngWord(rng) ==
    LET w == SubSeq(RngStream(rng.key), 8 * rng.pos + 1, 8 * rng.pos + 8)
    IN  W32(HexVal(w, 1, 4), HexVal(w, 5, 8))

\* the generator after n words
RngAdvance(rng, n) == [rng EXCEPT !.pos = @ + n]

\* random.getrandbits(k), k in 1..64: the top k bits of one word, or one
\* word below the top k - 32 bits of the next
getrandbits(rng, k) ==
    IF k <= 32
    THEN [val |-> WShr(RngWord(rng), 32 - k), rng |-> RngAdvance(rng, 1)]
    ELSE [val |-> WNorm(WPad(RngWord(rng), 32)
                           \o WShr(RngWord(RngAdvance(rng, 1)), 64 - k)),
          rng |-> RngAdvance(rng, 2)]

\* a < b
WLess(a, b) ==
    IF Len(a) # Len(b) THEN Len(a) < Len(b)
    ELSE \E i \in 1..Len(a) :
            /\ a[i] < b[i]
            /\ \A j \in (i + 1)..Len(a) : a[j] = b[j]

\* b - a; b is below 2^31 wherever a is not 0
WSub(b, a) == IF a = << >> THEN b ELSE WInt(WVal(b) - WVal(a))

\* random._randbelow(n): k = n.bit_length(); r = getrandbits(k);
\* while r >= n: r = getrandbits(k)
RECURSIVE randbelow(_, _)
randbelow(rng, n) ==
    LET g == getrandbits(rng, Len(n))
    IN  IF WLess(g.val, n) THEN g ELSE randbelow(g.rng, n)

\* random.randint(a, b): a + _randbelow(b - a + 1), with the generator after it
randint(rng, a, b) ==
    LET g == randbelow(rng, WAdd(WSub(b, a), WInt(1)))
    IN  [val |-> WAdd(a, g.val), rng |-> g.rng]

\* states the generator of a fresh interpreter can be in before any seed
RngPrior == { [key |-> 7, pos |-> 0], [key |-> 7, pos |-> 3], [key |-> 42, pos |-> 1] }

-----------------------------------------------------------------------------
(* SpecGolden: main() of gen_seal_golden.py, lines 55-80, run twice.       *)
(* seal_in holds the generator and the loop index, seal_out the vectors,   *)
(* the lines written and the lines of the first run.                       *)

\* gen_seal_golden.py:21
NUM_VECTORS == 100

\* gen_seal_golden.py:22
SEED == 42

\* the mutant: sensor_id shifted by 40
golden_pack_m(sid, val, crc) ==
    WOr(WOr(WShl(WInt(sid), 40), WShl(val, 16)), WInt(crc))

\* packed = (sid << 48) | (val << 16) | crc, line 78
golden_pack(sid, val, crc) ==
    WOr(WOr(WShl(WInt(sid), 48), WShl(val, 16)), WInt(crc))

\* hex digit j (from 0, least significant) of packed
HexDigit(packed, j) == WVal(WTrunc(WShr(packed, 4 * j), 4))

\* f"{packed:014X}", line 79: the hex digits, most significant first, at
\* least 14 of them
format_014X(packed) ==
    LET n == WMax(14, (Len(packed) + 3) \div 4)
    IN  [k \in 1..n |-> HexDigit(packed, n - k)]

\* the value of a sequence of hex digits, most significant first
HexWide(d) ==
    WNorm([b \in 1..(4 * Len(d)) |->
              (d[Len(d) - ((b - 1) \div 4)] \div Pow2((b - 1) % 4)) % 2])

GoldenInit ==
    /\ fpc = "gold_seed"
    /\ \E r \in RngPrior : seal_in = [rng |-> r, i |-> 0, run |-> 1]
    /\ seal_out = [vectors |-> << >>, lines |-> << >>, first |-> << >>]
    /\ CrcIdle
    /\ CpuIdle
    /\ BusOff

\* random.seed(SEED), line 56
GoldenSeed ==
    /\ fpc = "gold_seed"
    /\ seal_in' = [seal_in EXCEPT !.rng = seed(SEED)]
    /\ fpc' = "gold_loop"
    /\ UNCHANGED <<data, crc_tp, crc_e2e, crc_gold, seal_out, cpu_in, cpu, bvars>>

\* one pass of the loop, lines 63-69
GoldenVector ==
    /\ fpc = "gold_loop"
    /\ seal_in.i < NUM_VECTORS
    /\ LET g1 == randint(seal_in.rng, << >>, WInt(255))
           g2 == randint(g1.rng, << >>, W32(65535, 65535))
           sensor_id == WVal(g1.val)
           value == g2.val
           mono_count == WInt(seal_in.i)
           crc == crc16_modbus_golden(make_seal_bytes(sensor_id, value, mono_count))
       IN  /\ seal_out' = [seal_out EXCEPT !.vectors =
                              Append(@, [sid |-> sensor_id, value |-> value,
                                         mono |-> mono_count, crc |-> crc])]
           /\ seal_in' = [seal_in EXCEPT !.rng = g2.rng, !.i = @ + 1]
    /\ UNCHANGED <<data, crc_tp, crc_e2e, crc_gold, cpu_in, cpu, fpc, bvars>>

\* the four comment lines the file starts with, lines 72-75
GoldenHeader ==
    << "// Seal CRC16-MODBUS golden vectors (auto-generated)",
       "// Format per line: sensor_id[7:0] value[31:0] expected_crc[15:0]",
       "// mono_count = line index (0..99), auto-incremented by DUT",
       "// " \o ToString(NUM_VECTORS) \o " vectors, seed=" \o ToString(SEED) >>

\* a line of the file: a comment line has its text and no digits, a record
\* line its hex digits and no text
CommentLine(text) == [comment |-> text, digits |-> << >>]
RecordLine(d) == [comment |-> "", digits |-> d]

\* the file is written, lines 71-79: the comment lines, then one line for
\* each vector
GoldenWrite ==
    /\ fpc = "gold_loop"
    /\ seal_in.i = NUM_VECTORS
    /\ seal_out' = [seal_out EXCEPT !.lines =
                       [k \in 1..Len(GoldenHeader) |-> CommentLine(GoldenHeader[k])]
                       \o [k \in 1..Len(seal_out.vectors) |->
                              LET v == seal_out.vectors[k]
                              IN  RecordLine(format_014X(golden_pack(v.sid, v.value, v.crc)))]]
    /\ fpc' = "gold_written"
    /\ UNCHANGED <<data, crc_tp, crc_e2e, crc_gold, seal_in, cpu_in, cpu, bvars>>

\* the generator is run a second time, in a fresh interpreter
GoldenRunAgain ==
    /\ fpc = "gold_written"
    /\ seal_in.run = 1
    /\ \E r \in RngPrior : seal_in' = [rng |-> r, i |-> 0, run |-> 2]
    /\ seal_out' = [vectors |-> << >>, lines |-> << >>, first |-> seal_out.lines]
    /\ fpc' = "gold_seed"
    /\ UNCHANGED <<data, crc_tp, crc_e2e, crc_gold, cpu_in, cpu, bvars>>

GoldenNext == GoldenSeed \/ GoldenVector \/ GoldenWrite \/ GoldenRunAgain

SpecGolden == GoldenInit /\ [][GoldenNext]_vars

\* the digits of record k (from 1): the line after the comment lines and
\* the k - 1 records before it
GoldenRecord(k) == seal_out.lines[Len(GoldenHeader) + k].digits

\* record k of the file holds vector k in its three fields, and the fields
\* do not overlap
GoldenLineExact(k) ==
    LET v == seal_out.vectors[k]
        line == GoldenRecord(k)
        s == WShl(WInt(v.sid), 48)
        w == WShl(v.value, 16)
        c == WInt(v.crc)
    IN  /\ Len(line) = 14
        /\ Len(golden_pack(v.sid, v.value, v.crc)) <= 56
        /\ WAnd(s, w) = << >> /\ WAnd(s, c) = << >> /\ WAnd(w, c) = << >>
        /\ HexWide(SubSeq(line, 1, 2)) = WInt(v.sid)
        /\ HexWide(SubSeq(line, 3, 10)) = v.value
        /\ HexWide(SubSeq(line, 11, 14)) = WInt(v.crc)

\* C29: after its comment lines the file has 100 record lines, each of 14
\* hex digits that hold sensor_id, value and crc16 side by side, from which
\* the three are read back exactly; the crc16 of record i is computed with
\* monotonic_count i; a second run writes the same lines.
C29_GoldenRecords ==
    fpc = "gold_written" =>
       /\ Len(seal_out.lines) = Len(GoldenHeader) + NUM_VECTORS
       /\ \A k \in 1..Len(GoldenHeader) : seal_out.lines[k].digits = << >>
       /\ \A k \in 1..NUM_VECTORS :
             /\ seal_out.lines[Len(GoldenHeader) + k].comment = ""
             /\ GoldenLineExact(k)
             /\ seal_out.vectors[k].mono = WInt(k - 1)
             /\ seal_out.vectors[k].crc =
                   crc16_modbus(make_seal_bytes(seal_out.vectors[k].sid,
                                                seal_out.vectors[k].value, WInt(k - 1)))
       /\ seal_in.run = 2 => seal_out.lines = seal_out.first

\* the second run has written its file; the first vector has sensor_id 0x39
\* and value 0x46685257, a later one sensor_id 0xFF, another a value with
\* bit 31 set
C29_Witness ==
    /\ fpc = "gold_written" /\ seal_in.run = 2
    /\ seal_out.vectors[1].sid = 57
    /\ seal_out.vectors[1].value = W32(18024, 21079)
    /\ GoldenRecord(1)[1] = 3 /\ GoldenRecord(1)[2] = 9 /\ GoldenRecord(1)[3] = 4
    /\ seal_out.lines[4].comment = "// 100 vectors, seed=42"
    /\ \E k \in 1..NUM_VECTORS : seal_out.vectors[k].sid = 255
    /\ \E k \in 1..NUM_VECTORS : Len(seal_out.vectors[k].value) = 32

-----------------------------------------------------------------------------
(* SpecSeed: a run of a test module with COCOTB_SEED set.  The module      *)
(* seeds the generator of the module random once, when it is loaded        *)
(* (test_peripherals.py:23-24, test_peripheral_e2e.py:31-32); its tests    *)
(* draw from that generator.  A run executes some of the tests of the      *)
(* module, each once, in some order; a test is over when it returns or     *)
(* when one of its asserts fails.  seal_in holds the module and the seed,  *)
(* seal_out the run.                                                       *)

\* values of COCOTB_SEED
SeedValues == {42, 7}

\* tests a run executes at most
MaxRunTests == 2

\* n calls of random.randint(a, b) with no await between them
Ints(a, b, n) == [kind |-> "randint", a |-> a, b |-> b, n |-> n, of |-> << >>]

\* length = random.randint(a, b) and then
\* bytes(random.randint(0, 255) for _ in range(length))
Payload(a, b) == [kind |-> "payload", a |-> a, b |-> b, n |-> 0, of |-> << >>]

\* random.choice(of)
Choice(of) == [kind |-> "choice", a |-> << >>, b |-> << >>, n |-> 1, of |-> of]

\* the tests of test_peripherals.py that draw.  blocks are the calls of the
\* module random the test makes, in the order it makes them, the calls with
\* no await between them in one block; asserts are the numbers of blocks
\* after which the test passes an assert before it draws again.
\*   test_crc_random_data          lines 231-232 in each of 50 trials, assert 245
\*   test_crc_stress_rapid_fire    line 254
\*   test_gpio_random_sel_out      lines 317-318 in each of 20 rounds, asserts 325, 335
\*   test_gpio_readback_consistency lines 346 and 349 in each of 10 rounds, assert 351
\*   test_timer_random_countdown   line 365 in each of 5 rounds, asserts 376, 380
\*   test_timer_reload_race        line 399, after the asserts 395-396
\*   test_wdt_random_kick          line 475 in each of 5 rounds, after the assert 473
\*   test_rtc_random_set_read      line 519
\*   test_rtc_write_priority       lines 543 and 548
\*   test_seal_commit_mono_increment line 569 in each of 5 rounds, asserts 582, 592
\*   test_seal_random_data_crc     line 604 in each of 3 trials, assert 640
\*   test_sysinfo_pps_count        line 739
\*   test_i2c_random_prescale      line 807 in each of 10 rounds, assert 811
\*   test_spi_random_byte          line 852 in each of 10 rounds, assert 862
\*   test_cross_peripheral_random  line 932 in each of 50 rounds, asserts 936, 938
SeedTests ==
    { [test |-> "test_crc_random_data",
       blocks |-> [trial \in 1..50 |-> Payload(WInt(1), WInt(64))],
       asserts |-> 1..49],
      [test |-> "test_crc_stress_rapid_fire",
       blocks |-> << Ints(<< >>, WInt(255), 100) >>,
       asserts |-> {}],
      [test |-> "test_gpio_random_sel_out",
       blocks |-> [round \in 1..20 |-> Ints(<< >>, WInt(255), 2)],
       asserts |-> 1..19],
      [test |-> "test_gpio_readback_consistency",
       blocks |-> [k \in 1..20 |-> IF k % 2 = 1 THEN Ints(<< >>, WInt(255), 1)
                                                ELSE Ints(WInt(1), WInt(50), 1)],
       asserts |-> { 2 * round : round \in 1..9 }],
      [test |-> "test_timer_random_countdown",
       blocks |-> [round \in 1..5 |-> Ints(WInt(1), WInt(100), 1)],
       asserts |-> 1..4],
      [test |-> "test_timer_reload_race",
       blocks |-> << Ints(WInt(50), WInt(200), 1) >>,
       asserts |-> {0}],
      [test |-> "test_wdt_random_kick",
       blocks |-> [round \in 1..5 |-> Ints(WInt(50), WInt(200), 1)],
       asserts |-> 0..4],
      [test |-> "test_rtc_random_set_read",
       blocks |-> << Ints(<< >>, W32(65535, 65520), 1) >>,
       asserts |-> {}],
      [test |-> "test_rtc_write_priority",
       blocks |-> << Ints(WInt(100), WInt(200), 1), Ints(WInt(300), WInt(400), 1) >>,
       asserts |-> {}],
      [test |-> "test_seal_commit_mono_increment",
       blocks |-> [round \in 1..5 |-> Ints(<< >>, W32(65535, 65535), 1)],
       asserts |-> 1..4],
      [test |-> "test_seal_random_data_crc",
       blocks |-> [trial \in 1..3 |-> Ints(<< >>, W32(65535, 65535), 1)],
       asserts |-> 1..2],
      [test |-> "test_sysinfo_pps_count",
       blocks |-> << Ints(WInt(3), WInt(10), 1) >>,
       asserts |-> {}],
      [test |-> "test_i2c_random_prescale",
       blocks |-> [round \in 1..10 |-> Ints(WInt(1), WInt(255), 1)],
       asserts |-> 1..9],
      [test |-> "test_spi_random_byte",
       blocks |-> [round \in 1..10 |-> Ints(<< >>, WInt(255), 1)],
       asserts |-> 1..9],
      [test |-> "test_cross_peripheral_random",
       blocks |-> [round \in 1..50 |-> Choice(CrossPeris)],
       asserts |-> 1..49] }

\* the tests of test_peripheral_e2e.py that draw.  Each awaits init_test
\* before its first draw, which ends the test at the asserts of reset_e2e
\* (lines 111, 116) or at the AssertionError of line 137: 0 is in asserts
\*   test_e2e_crc16                lines 151-152
\*   test_e2e_gpio_roundtrip       lines 187-188 in each of 5 rounds, asserts 203, 208
\*   test_e2e_rtc_set_read         line 262
\*   test_e2e_sysinfo_read         line 304, after the asserts 299-301
\*   test_e2e_seal_commit_read     line 369
SeedTestsE2e ==
    { [test |-> "test_e2e_crc16",
       blocks |-> << Payload(WInt(1), WInt(8)) >>,
       asserts |-> {0}],
      [test |-> "test_e2e_gpio_roundtrip",
       blocks |-> [round \in 1..5 |-> Ints(<< >>, WInt(255), 2)],
       asserts |-> 0..4],
      [test |-> "test_e2e_rtc_set_read",
       blocks |-> << Ints(WInt(100), WInt(9999), 1) >>,
       asserts |-> {0}],
      [test |-> "test_e2e_sysinfo_read",
       blocks |-> << Ints(WInt(1), WInt(5), 1) >>,
       asserts |-> {0}],
      [test |-> "test_e2e_seal_commit_read",
       blocks |-> << Ints(<< >>, WInt(2047), 1) >>,
       asserts |-> {0}] }

\* the drawing tests of a module
ModuleTests(module) ==
    IF module = "test_peripherals" THEN SeedTests ELSE SeedTestsE2e

\* n calls of random.randint(a, b), one after the other: the values
\* returned and the generator after the last call
RECURSIVE randints(_, _, _, _)
randints(rng, a, b, n) ==
    IF n = 0 THEN [vals |-> << >>, rng |-> rng]
    ELSE IF n = 1
    THEN LET g == randint(rng, a, b) IN [vals |-> << g.val >>, rng |-> g.rng]
    ELSE LET p == randints(rng, a, b, n \div 2)
             q == randints(p.rng, a, b, n - (n \div 2))
         IN  [vals |-> p.vals \o q.vals, rng |-> q.rng]

\* the calls of one block: the values drawn and the generator after them
DrawBlock(rng, b) ==
    IF b.kind = "randint" THEN randints(rng, b.a, b.b, b.n)
    ELSE IF b.kind = "payload"
    THEN LET g == randint(rng, b.a, b.b)
             p == randints(g.rng, << >>, WInt(255), WVal(g.val))
         IN  [vals |-> << g.val >> \o p.vals, rng |-> p.rng]
    ELSE LET g == randbelow(rng, WInt(Len(b.of)))
         IN  [vals |-> << WInt(b.of[WVal(g.val) + 1]) >>, rng |-> g.rng]

\* the blocks from .. to of a test, one after the other
RECURSIVE DrawBlocks(_, _, _, _)
DrawBlocks(rng, blocks, from, to) ==
    IF from > to THEN [vals |-> << >>, rng |-> rng]
    ELSE IF from = to THEN DrawBlock(rng, blocks[from])
    ELSE LET mid == (from + to) \div 2
             p == DrawBlocks(rng, blocks, from, mid)
             q == DrawBlocks(p.rng, blocks, mid + 1, to)
         IN  [vals |-> p.vals \o q.vals, rng |-> q.rng]

RunNone ==
    [phase |-> "start", rng |-> seed(0), done |-> << >>, stim |-> << >>,
     cur |-> "none", blocks |-> 0, drawn |-> << >>]

SeedInit ==
    /\ fpc = "seed"
    /\ \E sd \in SeedValues, m \in {"test_peripherals", "test_peripheral_e2e"} :
          seal_in = [module |-> m, seed |-> sd]
    /\ \E r \in RngPrior : seal_out = [RunNone EXCEPT !.rng = r]
    /\ CrcIdle
    /\ CpuIdle
    /\ BusOff

\* the module is loaded: SEED = int(os.environ.get("COCOTB_SEED", ...));
\* random.seed(SEED)
SeedImport ==
    /\ fpc = "seed"
    /\ seal_out.phase = "start"
    /\ seal_out' = [seal_out EXCEPT !.phase = "loaded", !.rng = seed(seal_in.seed)]
    /\ UNCHANGED <<data, crc_tp, crc_e2e, crc_gold, seal_in, cpu_in, cpu, fpc, bvars>>

\* a test of the module that has not run yet starts
SeedTestStarts ==
    /\ fpc = "seed"
    /\ seal_out.phase = "loaded" /\ seal_out.cur = "none"
    /\ Len(seal_out.done) < MaxRunTests
    /\ \E t \in ModuleTests(seal_in.module) :
          /\ \A j \in 1..Len(seal_out.done) : seal_out.done[j].test # t.test
          /\ seal_out' = [seal_out EXCEPT !.cur = t.test]
    /\ UNCHANGED <<data, crc_tp, crc_e2e, crc_gold, seal_in, cpu_in, cpu, fpc, bvars>>

\* the test running makes its next calls of the module random, up to its
\* next await: they take their words from the generator of the module
SeedDraw ==
    /\ fpc = "seed"
    /\ \E t \in ModuleTests(seal_in.module) :
          /\ seal_out.cur = t.test
          /\ seal_out.blocks < Len(t.blocks)
          /\ \E g \in { DrawBlock(seal_out.rng, t.blocks[seal_out.blocks + 1]) } :
                seal_out' = [seal_out EXCEPT !.blocks = @ + 1,
                                             !.drawn = @ \o g.vals,
                                             !.rng = g.rng]
    /\ UNCHANGED <<data, crc_tp, crc_e2e, crc_gold, seal_in, cpu_in, cpu, fpc, bvars>>

\* the run with its running test over: done gets the test and the number
\* of blocks it has drawn, stim what it has drawn
TestOver(r) ==
    [r EXCEPT !.done = Append(@, [test |-> r.cur, blocks |-> r.blocks]),
              !.stim = Append(@, r.drawn),
              !.cur = "none", !.blocks = 0, !.drawn = << >>]

\* the test running is over after its last draw: it returns, or an assert
\* after the draw fails
SeedTestEnds ==
    /\ fpc = "seed"
    /\ \E t \in ModuleTests(seal_in.module) :
          /\ seal_out.cur = t.test
          /\ seal_out.blocks = Len(t.blocks)
          /\ seal_out' = TestOver(seal_out)
    /\ UNCHANGED <<data, crc_tp, crc_e2e, crc_gold, seal_in, cpu_in, cpu, fpc, bvars>>

\* an assert of the test running fails before its next draw: the test is
\* over and draws no more
SeedTestFails ==
    /\ fpc = "seed"
    /\ \E t \in ModuleTests(seal_in.module) :
          /\ seal_out.cur = t.test
          /\ seal_out.blocks < Len(t.blocks)
          /\ seal_out.blocks \in t.asserts
          /\ seal_out' = TestOver(seal_out)
    /\ UNCHANGED <<data, crc_tp, crc_e2e, crc_gold, seal_in, cpu_in, cpu, fpc, bvars>>

SeedNext == SeedImport \/ SeedTestStarts \/ SeedDraw \/ SeedTestEnds \/ SeedTestFails

SpecSeed == SeedInit /\ [][SeedNext]_vars

\* the test of a name
TestNamed(name) == CHOOSE t \in SeedTests \cup SeedTestsE2e : t.test = name

\* what the test of a name draws in its first n blocks in the run with seed
\* sd in which it is the first test after the module is loaded
FirstStimuli(sd, name, n) == DrawBlocks(seed(sd), TestNamed(name).blocks, 1, n).vals

\* C30: with the same seed a test draws the same stimuli in two runs,
\* whichever tests have run before it: in the run followed here, and in the
\* run in which it is the first test.
C30_StimuliReproducible ==
    fpc = "seed" =>
       \A i \in 1..Len(seal_out.done) :
          seal_out.stim[i] =
             FirstStimuli(seal_in.seed, seal_out.done[i].test, seal_out.done[i].blocks)

-----------------------------------------------------------------------------
(* The countdown timer: test_timer_random_countdown, test_timer_reload_race *)
(* and test_timer_irq_flag of test_peripherals.py, run on the time base.    *)
(* The timer itself is hardware of the repository, modelled from its        *)
(* register table: TIMER holds the microseconds remaining, a write reloads  *)
(* it.                                                                      *)

\* assert int(dut.tb_timer_irq.value) == expected
StAssertIrq(expected) == Stmt("assert_irq", "", 0, << >>, expected)

\* if val == 0: break, the break n statements ahead
StBreakIfZero(n) == Stmt("break", "clear", 0, W32(65535, 65535), n)

\* one round of test_timer_random_countdown, test_peripherals.py:365-380
timer_countdown_round(target_us) ==
    << StWrite(PERI_TIMER, target_us),
       StCycles(2),
       StFor,
       StReadFast(PERI_TIMER),
       StBreakIfZero(3),
       StCycles(1),
       StLoop(3, target_us * 30 + 500, "strict"),
       StReadFast(PERI_TIMER),
       StAssertEq(<< >>) >>

\* test_timer_random_countdown, test_peripherals.py:358-380, with the values
\* random.randint(1, 100) returns as targets
test_timer_random_countdown(targets) ==
    Flatten([i \in 1..Len(targets) |-> timer_countdown_round(targets[i])])

\* the mutant: the flag is looked at 4 microseconds after the write of 5
test_timer_irq_flag_m ==
    << StAssertIrq(0),
       StWrite(PERI_TIMER, 5),
       wait_us(4),
       StAssertIrq(1),
       StWrite(PERI_TIMER, 100),
       StCycles(2),
       StAssertIrq(0) >>

\* test_timer_irq_flag, test_peripherals.py:408-429
test_timer_irq_flag ==
    << StAssertIrq(0),
       StWrite(PERI_TIMER, 5),
       wait_us(10),
       StAssertIrq(1),
       StWrite(PERI_TIMER, 100),
       StCycles(2),
       StAssertIrq(0) >>

\* test_timer_reload_race, test_peripherals.py:384-405, with the value
\* random.randint(50, 200) returns as new_val
test_timer_reload_race(new_val) ==
    << StWrite(PERI_TIMER, 1000),
       wait_us(10),
       StReadFast(PERI_TIMER),
       StAssertLt(1000),
       StAssertNonzero,
       StWrite(PERI_TIMER, new_val),
       StCycles(5),
       StReadFast(PERI_TIMER),
       StAssertLe(new_val),
       StAssertNonzero >>

\* values of random.randint(50, 200), line 399
ReloadSamples == {50, 137, 200}

\* values of the five random.randint(1, 100) of line 365
TimerTargets ==
    { <<1, 2, 3, 4, 5>>, <<100, 1, 26, 2, 1>>, <<7, 7, 7, 7, 7>> }

TimerTests ==
    { Test("test_timer_irq_flag", << >>, test_timer_irq_flag) }
    \cup { Test("test_timer_random_countdown", t, test_timer_random_countdown(t)) :
              t \in TimerTargets }
    \cup { Test("test_timer_reload_race", <<v>>, test_timer_reload_race(v)) :
              v \in ReloadSamples }

\* the end of setup, test_peripherals.py:175-181, at any phase of the
\* microsecond
TimerInit ==
    /\ fpc = "timer"
    /\ CrcIdle /\ SealIdle /\ CpuIdle
    /\ rval = << >>
    /\ last = LastNone
    /\ trace = << >>
    /\ tb = enable([reset_lines(TbNone) EXCEPT !.rst_n = 1])
    /\ pc = "enable"
    /\ wait = 0
    /\ sc \in { [ScNone EXCEPT !.pos = "setup", !.test = t.test, !.arg = t.arg,
                               !.prog = t.prog] : t \in TimerTests }
    /\ hw \in { [HwNone EXCEPT !.tick_cnt = k] : k \in 0..(TicksPerUs - 1) }

\* assert int(dut.tb_timer_irq.value) == ..., lines 415, 424, 429
RunAssertIrq ==
    /\ At("assert_irq")
    /\ sc' = IF hw.timer_irq = Cur.n
             THEN [sc EXCEPT !.ip = @ + 1]
             ELSE [sc EXCEPT !.pos = "fail"]
    /\ UNCHANGED <<tb, pc, wait, rval, last, trace, hw, fvars>>

TimerNext ==
    \/ TickTimed
    \/ ScriptStart
    \/ WriteDeassert
    \/ WriteReturn
    \/ ReadFastSample
    \/ ReadFastReturn
    \/ AwaitDone
    \/ RunWrite
    \/ RunReadFast
    \/ RunCycles
    \/ RunFor
    \/ RunBreak
    \/ RunLoop
    \/ RunAssert
    \/ RunAssertIrq

SpecTimer == TimerInit /\ [][TimerNext]_vars

\* the microsecond ticks since the last write to TIMER
TimerTicks(h) == (h.note.tmr_p0 + h.note.tmr_el) \div TicksPerUs

\* C31: a timer written with T is T minus the microseconds gone since, one
\* for every 25 clock edges, and 0 from then on until the next write; the
\* IRQ flag is 0 from reset, 1 from the tick that takes a count above 0 to
\* 0, and 0 again from a reload; no poll of test_timer_random_countdown
\* uses up its budget and no assert of the two tests fails.
C31_TimerCountdown ==
    /\ sc.pos # "fail"
    /\ hw.note.tmr_set =>
          /\ hw.timer_rem = IF TimerTicks(hw) >= hw.note.tmr_val THEN 0
                            ELSE hw.note.tmr_val - TimerTicks(hw)
          /\ hw.timer_irq = IF hw.note.tmr_val > 0 /\ TimerTicks(hw) >= hw.note.tmr_val
                            THEN 1 ELSE 0
    /\ ~hw.note.tmr_set => hw.timer_rem = 0 /\ hw.timer_irq = 0
    /\ sc.test = "test_timer_random_countdown" /\ At("loop")
          => sc.polls + 1 < Cur.n[2]

\* test_timer_irq_flag is past its second assert: the count has been at 0
\* for microseconds and the flag is up
C31_Witness ==
    /\ sc.test = "test_timer_irq_flag" /\ sc.pos = "run" /\ sc.ip = 5
    /\ hw.note.tmr_val = 5 /\ TimerTicks(hw) >= 9
    /\ hw.timer_rem = 0 /\ hw.timer_irq = 1

-----------------------------------------------------------------------------
(* test_seal_3x_read_serialization, test_peripherals.py:645-679: one commit *)
(* from reset and three reads of SEAL_DATA.                                 *)

\* test_seal_3x_read_serialization, lines 654-678; 0xDEADBEEF is written as
\* its two halves joined, the words of lines 670-675 are decoded as in
\* decode_random_data_crc
test_seal_3x_read_serialization ==
    << StWriteW(PERI_SEAL_DATA, W32(57005, 48879)),
       StCycles(2),
       StWrite(PERI_SEAL_CTRL, 2),
       StCycles(200),
       StRead(PERI_SEAL_DATA),
       StRead(PERI_SEAL_DATA),
       StRead(PERI_SEAL_DATA),
       Stmt("assert", "first_eq", 0, W32(57005, 48879), 0),
       Stmt("assert", "mono_eq", 0, WInt(1), 0),
       Stmt("assert", "crc_nonzero", 0, << >>, 0) >>

\* setup(), lines 175-181, from any register contents
Seal3xInit ==
    /\ fpc = "seal3x"
    /\ CrcIdle /\ SealIdle /\ CpuIdle
    /\ tb = reset_lines(TbNone)
    /\ hw \in HwPowerOn
    /\ pc = "reset_hold"
    /\ wait = 15
    /\ rval = << >>
    /\ last = LastNone
    /\ trace = << >>
    /\ sc = [ScNone EXCEPT !.pos = "setup", !.test = "test_seal_3x_read_serialization",
                           !.prog = test_seal_3x_read_serialization]

Seal3xNext ==
    \/ Tick
    \/ ResetRelease
    \/ Enable
    \/ ScriptStart
    \/ WriteDeassert
    \/ WriteReturn
    \/ ReadSample
    \/ ReadPulse
    \/ ReadRelease
    \/ ReadReturn
    \/ AwaitDone
    \/ RunWrite
    \/ RunRead
    \/ RunCycles
    \/ RunAssert

SpecSeal3x == Seal3xInit /\ [][Seal3xNext]_vars

\* r0, r1 and r2 of lines 663-665 have been read
Seal3xRead == sc.pos \in {"run", "fail"} /\ pc = "idle" /\ Len(sc.log) = 3

\* C32: after reset, the commit of 0xDEADBEEF with SEAL_CTRL = 0x002 and the
\* wait of 200 cycles, the three reads of SEAL_DATA return 0xDEADBEEF, and
\* words that decode to monotonic_count = 1 and a crc16 other than 0.
C32_Seal3xRead ==
    Seal3xRead =>
        /\ sc.log[1] = W32(57005, 48879)
        /\ decode_random_data_crc(sc.log[2], sc.log[3]).mono = WInt(1)
        /\ decode_random_data_crc(sc.log[2], sc.log[3]).crc # 0

-----------------------------------------------------------------------------
(* test_gpio_random_sel_out, test_peripherals.py:310-336: the select mask   *)
(* and the output value are written, the mask and the pins are read back.   *)
(* test_spi_cs_end_txn, lines 865-889, looks at pin 4, the chip select of   *)
(* the SPI master, under both values of its select bit.                     *)

\* for _ in range(20), line 316
NumSelRounds == 20

\* the mutant: the word read from GPIO_OUT is compared with out_val on all
\* eight bits
test_gpio_random_sel_out_m(runs) ==
    Flatten([i \in 1..NumSelRounds |->
                << StWrite(PERI_GPIO_OUT_SEL, runs[i][1]),
                   StWrite(PERI_GPIO_OUT, runs[i][2]),
                   StCycles(2),
                   StReadFast(PERI_GPIO_OUT_SEL),
                   StAssertField(0, 255, runs[i][1]),
                   StReadFast(PERI_GPIO_OUT),
                   StAssertField(0, 255, runs[i][2]) >>])

\* test_gpio_random_sel_out, lines 316-336, runs[i] = <<sel, out_val>> of
\* round i; the asserts of lines 331-336, one per bit set in sel, compare
\* the bits of rd_out under sel with those of out_val
test_gpio_random_sel_out(runs) ==
    Flatten([i \in 1..NumSelRounds |->
                << StWrite(PERI_GPIO_OUT_SEL, runs[i][1]),
                   StWrite(PERI_GPIO_OUT, runs[i][2]),
                   StCycles(2),
                   StReadFast(PERI_GPIO_OUT_SEL),
                   StAssertField(0, 255, runs[i][1]),
                   StReadFast(PERI_GPIO_OUT),
                   StAssertField(0, runs[i][1], BitAnd(runs[i][2], runs[i][1])) >>])

\* values of random.randint(0, 0xFF), lines 317-318: every mask with five
\* output values, every output value with five masks
SelOutRuns ==
    { [i \in 1..NumSelRounds |->
          LET n == NumSelRounds * r + i - 1
          IN  << n % 256, (7 * n + 51 * (n \div 256)) % 256 >>] : r \in 0..63 }

\* test_spi_cs_end_txn, test_peripherals.py:865-889
test_spi_cs_end_txn ==
    << StWrite(PERI_GPIO_OUT_SEL, 0),
       StCycles(2),
       StProbePins,
       StAssertField(4, 1, 1),
       StWrite(PERI_GPIO_OUT_SEL, 16),
       StWrite(PERI_GPIO_OUT, 0),
       StCycles(2),
       StProbePins,
       StAssertField(4, 1, 0),
       StWrite(PERI_GPIO_OUT, 16),
       StCycles(2),
       StProbePins,
       StAssertField(4, 1, 1) >>

GpioTests ==
    { Test("test_gpio_random_sel_out", g, test_gpio_random_sel_out(g)) :
         g \in SelOutRuns }
    \cup { Test("test_spi_cs_end_txn", << >>, test_spi_cs_end_txn) }

\* setup(), lines 175-181, from any register contents
GpioInit ==
    /\ fpc = "gpio"
    /\ CrcIdle /\ SealIdle /\ CpuIdle
    /\ tb = reset_lines(TbNone)
    /\ hw \in HwPowerOn
    /\ pc = "reset_hold"
    /\ wait = 15
    /\ rval = << >>
    /\ last = LastNone
    /\ trace = << >>
    /\ sc \in { [ScNone EXCEPT !.pos = "setup", !.test = t.test, !.arg = t.arg,
                               !.prog = t.prog] : t \in GpioTests }

\* uo = int(dut.uo_out.value), lines 876, 883, 888
RunProbePins ==
    /\ At("probe_pins")
    /\ sc' = [sc EXCEPT !.ip = @ + 1, !.log = Append(@, WInt(HwPins(hw)))]
    /\ UNCHANGED <<tb, pc, wait, rval, last, trace, hw, fvars>>

GpioNext ==
    \/ Tick
    \/ ResetRelease
    \/ Enable
    \/ ScriptStart
    \/ WriteDeassert
    \/ WriteReturn
    \/ ReadFastSample
    \/ ReadFastReturn
    \/ AwaitDone
    \/ RunWrite
    \/ RunReadFast
    \/ RunCycles
    \/ RunProbePins
    \/ RunAssert

SpecGpio == GpioInit /\ [][GpioNext]_vars

\* the round the test is in, and its statement in the round, from 0
SelRound == ((sc.ip - 1) \div 7) + 1

SelStep == (sc.ip - 1) % 7

\* the test is between two statements, sel and out_val written and the two
\* cycles of line 321 gone
SelSettled ==
    /\ sc.test = "test_gpio_random_sel_out"
    /\ sc.pos = "run" /\ pc = "idle"
    /\ sc.ip <= Len(sc.prog) /\ SelStep >= 3

\* C33: with sel written to GPIO_OUT_SEL and out to GPIO_OUT, every pin
\* whose sel bit is 1 shows the bit of out and every other pin the
\* peripheral's output, GPIO_OUT_SEL reads back sel and nothing else, and
\* the low 8 bits of a read of GPIO_OUT are the pins; the test asserts of
\* lines 325 and 335 hold for all values.
C33_GpioSelOut ==
    /\ sc.pos # "fail"
    /\ SelSettled =>
          LET sel == sc.arg[SelRound][1]
              out == sc.arg[SelRound][2]
          IN  /\ BitAnd(HwPins(hw), sel) = BitAnd(out, sel)
              /\ BitAnd(HwPins(hw), 255 - sel) = BitAnd(HwPeriOut, 255 - sel)
              /\ safe_int(HwRdata(hw, read_fast_assert(tb, PERI_GPIO_OUT_SEL))) = WInt(sel)
              /\ WVal(WAnd(safe_int(HwRdata(hw, read_fast_assert(tb, PERI_GPIO_OUT))),
                            WInt(255))) = HwPins(hw)
              /\ SelStep >= 4 => sc.log[Len(sc.log) - (IF SelStep >= 6 THEN 1 ELSE 0)]
                                    = WInt(sel)
              /\ SelStep = 6 => WVal(WAnd(sc.log[Len(sc.log)], WInt(255))) = HwPins(hw)

\* sel = 0x0F and out = 0x69 are written: the pins show 9 in the low half
\* and the peripheral's output in the high half, and the read has returned
\* them
C33_Witness ==
    /\ SelSettled /\ SelStep = 6
    /\ sc.arg[SelRound] = <<15, 105>>
    /\ HwPins(hw) = 25
    /\ sc.log[Len(sc.log)] = WInt(25)

-----------------------------------------------------------------------------
(* The word BusMaster.read returns, test_peripherals.py:116-137, in the     *)
(* three reads of test_seal_3x_read_serialization.                          *)

\* the word SEAL_DATA shows in read phase k
SealPhaseWord(k) == HwSealWord([hw EXCEPT !.read_seq = k % 3])

\* C35: read returns the data it samples after the second edge with the
\* strobe, before the edge with the completion pulse; on SEAL_DATA that is
\* the word of the phase the read found, and the pulse then moves the phase
\* on by one: the n-th of consecutive reads returns the word of phase n - 1,
\* no word is skipped and none comes twice.
C35_ReadReturnsPhaseWord ==
    /\ (last.op = "read" /\ pc \in {"read_hold", "read_pulse", "read_release"}) =>
          /\ Len(last.win) >= 2
          /\ Len(last.win) >= 3 => rval = last.win[3]
          /\ \A k \in PulseEdges : k > 3
          /\ last.slot = PERI_SEAL_DATA => rval = SealPhaseWord(last.seq0)
    /\ (last.op = "read" /\ last.done) =>
          /\ last.ret = last.win[3]
          /\ last.slot = PERI_SEAL_DATA =>
                /\ last.ret = SealPhaseWord(last.seq0)
                /\ hw.read_seq = (last.seq0 + 1) % 3
    /\ \A n \in 1..Len(sc.log) : sc.log[n] = SealPhaseWord(n - 1)
    /\ (sc.pos = "run" /\ pc = "idle") => hw.read_seq = Len(sc.log) % 3

\* the three reads have returned three different words, those of phases 0,
\* 1 and 2, and the phase is back at 0
C35_Witness ==
    /\ Seal3xRead
    /\ last.op = "read" /\ last.done /\ last.seq0 = 2
    /\ sc.log = << SealPhaseWord(0), SealPhaseWord(1), SealPhaseWord(2) >>
    /\ sc.log[1] # sc.log[2] /\ sc.log[2] # sc.log[3] /\ sc.log[1] # sc.log[3]
    /\ hw.read_seq = 0

-----------------------------------------------------------------------------
(* The strobes of the direct-override driver, test_peripherals.py:90-152,   *)
(* and of the manual read of test_read_stability_rule_b, lines 953-965.     *)

\* a strobe is asserted on the lines t
StrobeOn(t) == t.write_n # 3 \/ t.read_n # 3

\* C36: the write strobe and the read strobe are never asserted together,
\* tb_read_complete is 1 only with the read strobe asserted, and tb_addr
\* changes only while no strobe is asserted, through enable, write, read,
\* read_fast, disable and the manual read of the Rule B test in all tests.
C36_StrobesExclusive ==
    /\ [](/\ ~(tb.write_n # 3 /\ tb.read_n # 3)
          /\ tb.read_complete = 1 => tb.read_n # 3)
    /\ [][StrobeOn(tb) => tb'.addr = tb.addr]_vars

\* the manual read of the Rule B test holds the read strobe on GPIO_OUT
\* with seven samples taken, after writes and before the release
C36_Witness ==
    /\ sc.test = "test_read_stability_rule_b"
    /\ Len(sc.log) = 7
    /\ tb.read_n = 2 /\ tb.write_n = 3 /\ tb.read_complete = 0
    /\ tb.addr = BusAddr(PERI_GPIO_OUT)

-----------------------------------------------------------------------------
(* The CPU-injection scenarios, test_peripheral_e2e.py: each test as the    *)
(* list of its statements: the mmio_write_small, mmio_write32, mmio_read,   *)
(* nop, start_nops, Timer, stop_nops and resync_cpu calls, the probes of    *)
(* the pins, and the asserts, which end the test when they fail.  The words *)
(* a read returns are inputs: each mmio_read carries the words it can       *)
(* return, the one its asserts accept among them.                           *)

\* test_peripheral_e2e.py:37
OFF_GPIO_OUT == 0

\* test_peripheral_e2e.py:39
OFF_CRC16 == 8

\* test_peripheral_e2e.py:40
OFF_GPIO_OUT_SEL == 12

\* test_peripheral_e2e.py:43
OFF_RTC == 40

\* test_peripheral_e2e.py:44
OFF_SEAL_DATA == 44

\* test_peripheral_e2e.py:46
OFF_WDT == 52

\* test_peripheral_e2e.py:47
OFF_SEAL_CTRL == 56

\* test_peripheral_e2e.py:48
OFF_SYSINFO == 60

\* mmio_write32, lines 73-83: LUI x1, upper & 0xFFFFF; ADDI x1, x1, lower;
\* SW x1, offset(tp)
mmio_write32(offset, val, call) ==
    << Instr("LUI", mmio_write32_lui_imm(mmio_write32_upper(WInt(val))), call),
       Instr("ADDI", mmio_write32_lower(WInt(val)), call),
       Instr("SW", offset, call) >>

\* nop, lines 95-98: n times ADDI x0, x0, 0
nop(n, call) == [i \in 1..n |-> Instr("ADDI", 0, call)]

StMmioWrite32(offset, val) == Stmt("mmio_write32", "", offset, << >>, val)

StNop(n) == Stmt("nop", "", 0, << >>, n)

\* val = await mmio_read(dut, offset), with the words the read can return
StMmioReadOf(offset, words) == Stmt("mmio_read", "of", offset, << >>, words)

\* uo = int(dut.uo_out.value), lines 198-202, with the values of the pins
StProbeUo(words) == Stmt("probe_uo", "", 0, << >>, words)

\* await ClockCycles(dut.clk, n) of the test, no feeder running
StClockCycles(n) == Stmt("timer", "cycles", 0, << >>, n)

\* an assert of the kind named, on the words read last
StAssertKind(kind, d) == Stmt("assert", kind, 0, d, 0)

\* start_nops; Timer(us); stop_nops; resync_cpu
filler_region(us) == << StStartNops, StTimer(us), StStopNops, StResyncCpu >>

\* the words CRC16 can show after the bytes of payload: the CRC, the CRC
\* with busy set, zero
CrcWords(payload) ==
    { WInt(crc16_modbus_e2e(payload)), BusyWord(crc16_modbus_e2e(payload)), << >> }

\* test_e2e_crc16, test_peripheral_e2e.py:146-175
test_e2e_crc16(payload) ==
    << StMmioWriteSmall(OFF_CRC16, 256) >>
    \o Flatten([i \in 1..Len(payload) |->
                   << StMmioWriteSmall(OFF_CRC16, payload[i]), StNop(3) >>])
    \o << StNop(5),
          StMmioReadOf(OFF_CRC16, CrcWords(payload)),
          StAssertField(16, 1, 0),
          StAssertField(0, 65535, crc16_modbus_e2e(payload)) >>

\* the values uo_out and the read of GPIO_OUT can have: the bits written
\* that are selected, all bits, none
PinWords(sel, out) == { WInt(BitAnd(out, sel)), WInt(255), << >> }

\* test_e2e_gpio_roundtrip, lines 182-213, runs[i] = <<sel, out>>
test_e2e_gpio_roundtrip(runs) ==
    Flatten([i \in 1..Len(runs) |->
                << StMmioWriteSmall(OFF_GPIO_OUT_SEL, runs[i][1]),
                   StMmioWriteSmall(OFF_GPIO_OUT, runs[i][2]),
                   StNop(3),
                   StProbeUo(PinWords(runs[i][1], runs[i][2])),
                   StAssertField(0, runs[i][1], BitAnd(runs[i][2], runs[i][1])),
                   StMmioReadOf(OFF_GPIO_OUT,
                                PinWords(runs[i][1], runs[i][2]) \cup {WInt(256)}),
                   StAssertKind("low8_is_prev", << >>) >>])
    \o << StMmioWriteSmall(OFF_GPIO_OUT_SEL, 0),
          StMmioWriteSmall(OFF_GPIO_OUT, 128) >>

\* the words RTC can show: the time set, zero, a second more
RtcWords(init_time) == { WInt(init_time), << >>, WInt(init_time + 1) }

\* test_e2e_rtc_set_read, lines 257-279
test_e2e_rtc_set_read(init_time) ==
    << StMmioWrite32(OFF_RTC, init_time),
       StMmioReadOf(OFF_RTC, RtcWords(init_time)),
       StAssertEq(WInt(init_time)) >>
    \o filler_region(100)
    \o << StMmioReadOf(OFF_RTC, RtcWords(init_time)),
          StAssertEq(WInt(init_time)) >>

\* the words SYSINFO can show after n pulses: n counted, one less, one
\* more, and zero
SysinfoWords(n) ==
    { W32(n, 272), W32(WMax(n - 1, 0), 272), W32(n + 1, 272), << >> }

\* the mutant: the feeder is started for the low half of a pulse without
\* having been stopped after the high half
test_e2e_sysinfo_read_m(n_pulses) ==
    << StMmioReadOf(OFF_SYSINFO, SysinfoWords(0)),
       StAssertField(0, 255, 16),
       StAssertField(8, 255, 1),
       StAssertField(16, 65535, 0) >>
    \o Flatten([i \in 1..n_pulses |->
                   << StUiSet(16), StStartNops, StTimer(10),
                      StUiClear(16), StStartNops, StTimer(10), StStopNops >>])
    \o << StResyncCpu,
          StMmioReadOf(OFF_SYSINFO, SysinfoWords(n_pulses)),
          StAssertField(16, 65535, n_pulses) >>

\* test_e2e_sysinfo_read, lines 286-320
test_e2e_sysinfo_read(n_pulses) ==
    << StMmioReadOf(OFF_SYSINFO, SysinfoWords(0)),
       StAssertField(0, 255, 16),
       StAssertField(8, 255, 1),
       StAssertField(16, 65535, 0) >>
    \o Flatten([i \in 1..n_pulses |->
                   << StUiSet(16), StStartNops, StTimer(10), StStopNops,
                      StUiClear(16), StStartNops, StTimer(10), StStopNops >>])
    \o << StResyncCpu,
          StMmioReadOf(OFF_SYSINFO, SysinfoWords(n_pulses)),
          StAssertField(16, 65535, n_pulses) >>

\* the counts WDT can show when about n are left: n, one less, none
WdtWords(n) == { WInt(WMax(n, 0)), WInt(WMax(n - 1, 0)), << >> }

\* the mutant: the kick writes the microseconds in place of the timeout
test_e2e_wdt_enable_read_m(timeout, us) ==
    << StMmioWriteSmall(OFF_WDT, timeout),
       StMmioReadOf(OFF_WDT, WdtWords(timeout)),
       StAssertNonzero >>
    \o filler_region(us)
    \o << StMmioReadOf(OFF_WDT, WdtWords(timeout - us) \cup {WInt(timeout)}),
          StAssertKind("lt_prev", << >>),
          StAssertNonzero,
          StMmioWriteSmall(OFF_WDT, us),
          StMmioReadOf(OFF_WDT, WdtWords(timeout) \cup {WInt(WMax(timeout - us - 1, 0))}),
          StAssertKind("gt_prev", << >>) >>

\* test_e2e_wdt_enable_read, lines 327-357, with the value of line 332 in
\* timeout and the microseconds of line 340 in us
test_e2e_wdt_enable_read(timeout, us) ==
    << StMmioWriteSmall(OFF_WDT, timeout),
       StMmioReadOf(OFF_WDT, WdtWords(timeout)),
       StAssertNonzero >>
    \o filler_region(us)
    \o << StMmioReadOf(OFF_WDT, WdtWords(timeout - us) \cup {WInt(timeout)}),
          StAssertKind("lt_prev", << >>),
          StAssertNonzero,
          StMmioWriteSmall(OFF_WDT, timeout),
          StMmioReadOf(OFF_WDT, WdtWords(timeout) \cup {WInt(WMax(timeout - us - 1, 0))}),
          StAssertKind("gt_prev", << >>) >>

\* the CRC the seal holds for the first commit of test_val
SealCrcOf(test_val) == crc16_modbus_e2e(seal_bytes_e2e(0, WInt(test_val), << >>))

\* test_e2e_seal_commit_read, lines 364-429; lines 388-392 are run if the
\* word read at line 383 has bit 0, busy, set
test_e2e_seal_commit_read(test_val) ==
    << StMmioWriteSmall(OFF_SEAL_DATA, test_val),
       StMmioWriteSmall(OFF_SEAL_CTRL, 2),
       StNop(20) >>
    \o filler_region(50)
    \o << StMmioReadOf(OFF_SEAL_CTRL, { << >>, WInt(1) }),
          StBreakIfClear(1, 7) >>
    \o filler_region(100)
    \o << StMmioReadOf(OFF_SEAL_CTRL, { << >>, WInt(1) }),
          StAssertField(0, 1, 0),
          StMmioReadOf(OFF_SEAL_DATA, { WInt(test_val), WInt(test_val + 1) }),
          StMmioReadOf(OFF_SEAL_DATA, { SealWord2(0, << >>), SealWord2(0, WInt(1)) }),
          StMmioReadOf(OFF_SEAL_DATA, { SealWord3(<< >>, SealCrcOf(test_val)),
                                        SealWord3(<< >>, 0) }),
          StAssertKind("first_eq", WInt(test_val)),
          StAssertKind("e2e_mono", << >>),
          StAssertKind("e2e_crc", WInt(test_val)) >>

\* one pass of the read loop, lines 508-526 (i from 1)
sht31_read_byte(i) ==
    << StMmioWriteSmall(OFF_I2C_DATA, IF i = 6 THEN Shl(1, 8) + Shl(1, 9) ELSE Shl(1, 8)),
       StClockCycles(12800),
       StMmioReadOf(OFF_I2C_DATA, I2cByteWords(i)),
       StCollect >>

\* test_e2e_i2c_sht31, lines 436-537
test_e2e_i2c_sht31 ==
    << StMmioWriteSmall(OFF_I2C_CONFIG, 4),
       StMmioWriteSmall(OFF_I2C_DATA, Shl(1, 10) + 136) >>
    \o filler_region(200)
    \o << StMmioReadOf(OFF_I2C_DATA, I2cStatusWords),
          StReturnIfNack,
          StMmioWriteSmall(OFF_I2C_DATA, 36) >>
    \o filler_region(200)
    \o << StMmioWriteSmall(OFF_I2C_DATA, Shl(1, 9)) >>
    \o filler_region(200)
    \o << StMmioWriteSmall(OFF_I2C_DATA, Shl(1, 10) + 137) >>
    \o filler_region(200)
    \o << StMmioReadOf(OFF_I2C_DATA, I2cStatusWords),
          StReturnIfNack >>
    \o Flatten([i \in 1..6 |-> sht31_read_byte(i)])
    \o << StVerify >>

\* the tests, with values of their random.randint calls (lines 151-152,
\* 187-188, 262, 304, 369)
FillTests ==
    { Test("test_e2e_crc16", p, test_e2e_crc16(p)) :
         p \in { <<85>>, <<1, 2, 3, 4, 5, 6, 7, 255>> } }
    \cup { Test("test_e2e_gpio_roundtrip", g, test_e2e_gpio_roundtrip(g)) :
              g \in { << <<0, 0>>, <<255, 255>>, <<15, 105>>, <<240, 1>>, <<85, 170>> >> } }
    \cup { Test("test_e2e_rtc_set_read", <<t>>, test_e2e_rtc_set_read(t)) :
              t \in {100, 2048, 9999} }
    \cup { Test("test_e2e_sysinfo_read", <<n>>, test_e2e_sysinfo_read(n)) : n \in 1..5 }
    \cup { Test("test_e2e_seal_commit_read", <<v>>, test_e2e_seal_commit_read(v)) :
              v \in {0, 1365, 2047} }
    \cup { Test("test_e2e_wdt_enable_read", <<500, 200>>, test_e2e_wdt_enable_read(500, 200)),
           Test("test_e2e_timer_countdown", << >>, test_e2e_timer_countdown),
           Test("test_e2e_i2c_sht31", << >>, test_e2e_i2c_sht31) }

\* init_test has returned
FillInit ==
    /\ fpc = "fill"
    /\ CrcIdle /\ SealIdle
    /\ cpu_in = CpuInNone
    /\ cpu = CpuNone
    /\ tb = E2eLines /\ hw = HwNone
    /\ pc = "idle"
    /\ wait = 0
    /\ rval = << >>
    /\ last = LastNone
    /\ trace = << >>
    /\ sc \in { [ScNone EXCEPT !.pos = "run", !.ip = 1, !.test = t.test, !.arg = t.arg,
                               !.prog = t.prog] : t \in FillTests }

RunMmioWrite32 ==
    /\ At("mmio_write32")
    /\ cpu' = [cpu EXCEPT !.queue = mmio_write32(Cur.slot, Cur.n, sc.ip)]
    /\ sc' = [sc EXCEPT !.pos = "send"]
    /\ UNCHANGED nvars

RunNop ==
    /\ At("nop")
    /\ cpu' = [cpu EXCEPT !.queue = nop(Cur.n, sc.ip)]
    /\ sc' = [sc EXCEPT !.pos = "send"]
    /\ UNCHANGED nvars

\* uo = int(dut.uo_out.value), lines 198-202
RunProbeUo ==
    /\ At("probe_uo")
    /\ \E v \in Cur.n : sc' = [sc EXCEPT !.ip = @ + 1, !.log = Append(@, v)]
    /\ UNCHANGED <<tb, pc, wait, rval, last, trace, hw, fvars>>

\* the CPU takes the instruction offered; the stream is not kept
FillFetch ==
    /\ cpu.line # NoInstr
    /\ cpu' = [cpu EXCEPT !.line = NoInstr]
    /\ UNCHANGED <<sc, nvars>>

\* the words a read can return: a remaining count of TIMER, or the words
\* of the statement
FillAnswers(o) == IF o.kind = "" THEN TimerAnswers ELSE o.n

\* the call returns; mmio_read returns the register
FillCallReturn ==
    /\ sc.pos = "send"
    /\ cpu.queue = << >>
    /\ cpu.line.by # "test"
    /\ IF Cur.op = "mmio_read"
       THEN \E v \in FillAnswers(Cur) :
               sc' = [sc EXCEPT !.pos = "run", !.ip = @ + 1, !.log = Append(@, v)]
       ELSE sc' = [sc EXCEPT !.pos = "run", !.ip = @ + 1]
    /\ UNCHANGED <<cpu, nvars>>

FillNext ==
    \/ RunMmioWriteSmall
    \/ RunMmioWrite32
    \/ RunMmioRead
    \/ RunNop
    \/ RunProbeUo
    \/ TestSend
    \/ FillFetch
    \/ FillCallReturn
    \/ RunStartNops
    \/ FeedNop
    \/ RunTimer
    \/ TimerExpire
    \/ RunStopNops
    \/ StopReturn
    \/ RunResyncCpu
    \/ RunUiIn
    \/ RunBreak
    \/ RunReturnIfNack
    \/ RunCollect
    \/ RunI2cVerify
    \/ RunAssertRange
    \/ RunAssert

SpecFill == FillInit /\ [][FillNext]_vars

\* the calls that send instructions
SendingCalls == {"mmio_read", "mmio_write_small", "mmio_write32", "nop"}

\* C37: no mmio_read, mmio_write_small, mmio_write32 or nop is called, and
\* no instruction of the test is sent, while a filler region is active; no
\* filler region is started while another is active; every stop_nops ends a
\* region that is active, and a test ends with none active.
C37_FillerRegionsPaired ==
    /\ \A op \in SendingCalls \cup {"start_nops"} : At(op) => cpu.filler = "off"
    /\ sc.pos = "send" => cpu.filler = "off"
    /\ cpu.line.by = "test" => cpu.filler = "off"
    /\ At("stop_nops") => cpu.filler = "on"
    /\ ScriptDone => cpu.filler = "off"

\* test_e2e_sysinfo_read with five pulses has run its ten filler regions,
\* the last with three NOPs fed, and sends the LW of its second read
C37_Witness ==
    /\ sc.test = "test_e2e_sysinfo_read" /\ sc.arg = <<5>>
    /\ sc.pos = "send" /\ sc.ip = Len(sc.prog) - 1
    /\ cpu.line = Instr("LW", OFF_SYSINFO, sc.ip)
    /\ cpu.fed = MaxNops
    /\ cpu.filler = "off"

-----------------------------------------------------------------------------
(* SpecI2c: the I2C and SPI scenarios.  test_e2e_i2c_sht31 sends its        *)
(* instructions as in SpecFill; test_i2c_nack_detection,                    *)
(* test_i2c_sht31_read, test_i2c_random_prescale and test_spi_random_byte   *)
(* drive the lines through BusMaster, clock by clock, from the end of       *)
(* setup.  The status words of I2C_DATA and SPI_STATUS are inputs: before   *)
(* a read_fast of a wait loop samples one, its master may have changed it.  *)

\* for _ in range(10), lines 806 and 851
NumConfigRounds == 10

\* test_i2c_random_prescale, test_peripherals.py:800-812, with the values
\* random.randint(1, 255) returns as prescale
test_i2c_random_prescale(prescales) ==
    Flatten([i \in 1..NumConfigRounds |->
                << StWrite(PERI_I2C_CONFIG, prescales[i]),
                   StCycles(2),
                   StReadFast(PERI_I2C_CONFIG),
                   StAssertLow16(prescales[i]) >>])

\* values of random.randint(1, 255), line 807
PrescaleRuns ==
    { <<1, 255, 2, 128, 127, 85, 170, 16, 254, 3>>,
      <<7, 7, 7, 7, 7, 200, 200, 1, 1, 255>> }

\* range(200), line 856
SpiPollBudget == 200

\* test_spi_random_byte, test_peripherals.py:845-862, with the values
\* random.randint(0, 255) returns as tx_byte
test_spi_random_byte(tx_bytes) ==
    Flatten([i \in 1..NumConfigRounds |->
                << StWrite(PERI_SPI, tx_bytes[i]),
                   StFor,
                   StReadFastPoll(PERI_SPI_STATUS),
                   StBreakIfClear(1, 3),
                   StCycles(1),
                   StLoop(3, SpiPollBudget, "strict") >>])

\* values of random.randint(0, 255), line 852
SpiByteRuns == { <<0, 255, 1, 128, 165, 90, 15, 240, 7, 254>> }

\* the status SPI_STATUS shows while the test polls: busy, or not
SpiPollWords == { WInt(1), << >> }

I2cTests ==
    { Test("test_i2c_nack_detection", << >>, test_i2c_nack_detection),
      Test("test_i2c_sht31_read", << >>, test_i2c_sht31_read) }
    \cup { Test("test_i2c_random_prescale", p, test_i2c_random_prescale(p)) :
              p \in PrescaleRuns }
    \cup { Test("test_spi_random_byte", b, test_spi_random_byte(b)) :
              b \in SpiByteRuns }

\* init_test has returned, or setup is at its end (test_peripherals.py:175-181)
I2cInit ==
    /\ fpc = "i2c"
    /\ CrcIdle /\ SealIdle /\ CpuIdle
    /\ hw = HwNone
    /\ wait = 0
    /\ rval = << >>
    /\ last = LastNone
    /\ trace = << >>
    /\ \/ /\ tb = E2eLines
          /\ pc = "idle"
          /\ sc = [ScNone EXCEPT !.pos = "run", !.ip = 1, !.test = "test_e2e_i2c_sht31",
                                 !.prog = test_e2e_i2c_sht31]
       \/ /\ tb = enable([reset_lines(TbNone) EXCEPT !.rst_n = 1])
          /\ pc = "enable"
          /\ sc \in { [ScNone EXCEPT !.pos = "setup", !.test = t.test, !.arg = t.arg,
                                     !.prog = t.prog] : t \in I2cTests }

\* the I2C master changes the word I2C_DATA shows, while a read_fast of
\* I2C_DATA waits for its first edge
I2cDevice ==
    /\ pc = "fast_settle" /\ wait = 2
    /\ last.slot = PERI_I2C_DATA
    /\ \E v \in I2cPollWords :
          /\ v # hw.i2c_word
          /\ hw' = [hw EXCEPT !.i2c_word = v]
    /\ UNCHANGED <<tb, pc, wait, rval, last, trace, sc, fvars>>

\* the SPI master changes the status SPI_STATUS shows, while a read_fast
\* of SPI_STATUS waits for its first edge
SpiDevice ==
    /\ pc = "fast_settle" /\ wait = 2
    /\ last.slot = PERI_SPI_STATUS
    /\ \E v \in SpiPollWords :
          /\ v # hw.spi_word
          /\ hw' = [hw EXCEPT !.spi_word = v]
    /\ UNCHANGED <<tb, pc, wait, rval, last, trace, sc, fvars>>

I2cNext ==
    \/ ScriptStart
    \/ Tick
    \/ I2cDevice
    \/ SpiDevice
    \/ WriteDeassert
    \/ WriteReturn
    \/ ReadFastSample
    \/ ReadFastReturn
    \/ AwaitDone
    \/ RunWrite
    \/ RunReadFast
    \/ RunCycles
    \/ RunFor
    \/ RunBreak
    \/ RunLoop
    \/ RunLogNack
    \/ RunMmioWriteSmall
    \/ RunMmioRead
    \/ TestSend
    \/ FillFetch
    \/ FillCallReturn
    \/ RunStartNops
    \/ FeedNop
    \/ RunTimer
    \/ TimerExpire
    \/ RunStopNops
    \/ StopReturn
    \/ RunResyncCpu
    \/ RunReturnIfNack
    \/ RunCollect
    \/ RunI2cVerify
    \/ RunAssert

SpecI2c == I2cInit /\ [][I2cNext]_vars

\* the bytes of read_data that were valid and differ from the slave model's
I2cMismatches ==
    { i \in 1..Len(sc.observed) : sc.observed[i] # None
                                  /\ sc.observed[i] # expected_data[i] }

\* C24: a scenario in which a byte observed from the hardware differs from
\* the byte the reference expects does not pass: test_e2e_i2c_sht31 never
\* runs to its end with a valid byte that is not the expected one.
C24_MismatchFatal ==
    (sc.test = "test_e2e_i2c_sht31" /\ ScriptDone) => I2cMismatches = {}

\* the reads of test_e2e_i2c_sht31 after an address phase (the first two)
\* that showed the address not acknowledged
NackReads ==
    { k \in 1..WMin(2, Len(sc.log)) : WAnd(sc.log[k], WInt(512)) # << >> }

\* the places in sc.issued of the warnings of lines 472 and 501, logged for
\* an address that was not acknowledged (the warning of line 525, for a byte
\* without rx_valid, is logged by the read loop)
NackWarnings ==
    { k \in 1..Len(sc.issued) : /\ sc.issued[k].op = "warning"
                                /\ sc.prog[sc.issued[k].call].op = "return_if_nack" }

\* C25: a NACK after an address phase is reported and is not fatal: the
\* scenario logs it and has ended without a failure, and it sends no
\* instruction and makes no read after the read that showed the NACK.
C25_NackNotFatal ==
    /\ sc.test = "test_e2e_i2c_sht31" =>
          /\ \A k \in NackReads :
                /\ sc.pos # "fail"
                /\ k = Len(sc.log)
                /\ cpu.queue = << >> /\ cpu.line.by # "test"
                /\ \/ /\ At("return_if_nack")
                      /\ sc.issued[Len(sc.issued)].op = "READ_REG"
                   \/ /\ ScriptDone
                      /\ sc.issued[Len(sc.issued)].op = "warning"
                      /\ sc.issued[Len(sc.issued) - 1].op = "READ_REG"
          /\ \A k \in NackWarnings : k = Len(sc.issued) /\ ScriptDone
    /\ sc.test = "test_i2c_nack_detection" =>
          /\ sc.pos # "fail"
          /\ \A k \in 1..Len(sc.issued) :
                sc.issued[k].op = "info" => k = Len(sc.issued) /\ ScriptDone

\* the read address of test_e2e_i2c_sht31 was not acknowledged: the test
\* has ended after its warning, the read of the status the last thing sent
C25_Witness ==
    /\ sc.test = "test_e2e_i2c_sht31" /\ ScriptDone
    /\ Len(sc.log) = 2
    /\ NackReads = {2}
    /\ sc.issued[Len(sc.issued)].op = "warning"
    /\ sc.issued[Len(sc.issued) - 1] = Instr("READ_REG", 1, sc.issued[Len(sc.issued)].call - 1)

-----------------------------------------------------------------------------
(* The layout of I2C_DATA in the I2C scenarios of the two drivers.          *)

\* the bits a command to I2C_DATA has: bit10 = start, bit9 = stop,
\* bit8 = read, bits[7:0] = data
I2cCommandBits == Shl(1, 11) - 1

\* the busy bit of the status, bit 8
I2cBusy(status) == WVal(WAnd(WShr(status, 8), WInt(1)))

\* the scenario is at the if of its wait loop, test_peripherals.py:793, 833
AtPollBreak == At("break") /\ sc.test \in {"test_i2c_sht31_read", "test_i2c_nack_detection"}

\* the values test_e2e_i2c_sht31 has written to I2C_DATA: the immediate of
\* the ADDI before each SW to OFF_I2C_DATA
E2eI2cCommands ==
    { sc.issued[k - 1].imm : k \in { j \in 2..Len(sc.issued) :
                                       /\ sc.issued[j].op = "SW"
                                       /\ sc.issued[j].imm = OFF_I2C_DATA } }

\* C34: every command a scenario writes to I2C_DATA is made of bit10 =
\* start, bit9 = stop, bit8 = read and bits[7:0] = data, with no bit above;
\* the miss_ack a scenario reports is bit 9 of the status; and a wait loop
\* goes on polling exactly while bit 8 of the status, busy, is set.
C34_I2cLayout ==
    /\ sc.test = "test_e2e_i2c_sht31" =>
          \A c \in E2eI2cCommands : BitAnd(c, I2cCommandBits) = c
    /\ WriteStrobe(tb, PERI_I2C_DATA)
          => WAnd(tb.wdata, WInt(I2cCommandBits)) = tb.wdata
    /\ (ScriptDone /\ sc.test = "test_i2c_nack_detection")
          => sc.issued[Len(sc.issued)].data = WInt(miss_ack(sc.log[Len(sc.log)]))
    /\ AtPollBreak =>
          (I2cBusy(sc.log[Len(sc.log)]) = 0
              <=> WAnd(sc.log[Len(sc.log)], Cur.data) = << >>)

-----------------------------------------------------------------------------
(* SpecWdt: the watchdog under its tests.  test_wdt_enable_irreversible and *)
(* test_wdt_random_kick drive the lines through BusMaster from the end of   *)
(* setup.  test_e2e_wdt_enable_read sends instructions; the CPU that runs   *)
(* them is hardware of the repository and is modelled from the spec: an     *)
(* instruction offered is executed at a clock edge some clocks later, a     *)
(* store presents its write and a load its read to the peripherals as the   *)
(* override lines would, and read_reg returns x1.  The time base runs at    *)
(* every edge.                                                              *)

\* clocks from the offer of an instruction to the edge that executes it
InstrClocks == {1, 2, 12}

WdtTests ==
    { Test("test_wdt_enable_irreversible", << >>, test_wdt_enable_irreversible) }
    \cup { Test("test_wdt_random_kick", k, test_wdt_random_kick(k)) : k \in KickSamples }

\* the clock within the microsecond when test_e2e_wdt_enable_read starts
WdtE2ePhases == {0, 13}

\* the timeout of line 332 and the microseconds of line 340
WdtE2eTests ==
    { Test("test_e2e_wdt_enable_read", <<500, 200>>, test_e2e_wdt_enable_read(500, 200)) }

\* the end of setup, test_peripherals.py:175-181, or the return of
\* init_test, at some phase of the time base
WdtInit ==
    /\ fpc = "wdt"
    /\ CrcIdle /\ SealIdle /\ CpuIdle
    /\ wait = 0
    /\ rval = << >>
    /\ last = LastNone
    /\ trace = << >>
    /\ \/ /\ tb = enable([reset_lines(TbNone) EXCEPT !.rst_n = 1])
          /\ pc = "enable"
          /\ sc \in { [ScNone EXCEPT !.pos = "setup", !.test = t.test, !.arg = t.arg,
                                     !.prog = t.prog] : t \in WdtTests }
          /\ hw \in { [HwNone EXCEPT !.us_count = p[1], !.tick_cnt = p[2]] :
                        p \in WdtPhases }
       \/ /\ tb = E2eLines
          /\ pc = "idle"
          /\ hw \in { [HwNone EXCEPT !.tick_cnt = k] : k \in WdtE2ePhases }
          /\ sc \in { [ScNone EXCEPT !.pos = "run", !.ip = 1, !.test = t.test,
                                     !.arg = t.arg, !.prog = t.prog] : t \in WdtE2eTests }

\* the access the peripherals see at the edge at which the CPU executes
\* instruction i: the store of x1 to tp + imm, the load from tp + imm
CpuBus(t, i, x1) ==
    IF i.op = "SW"
    THEN [t EXCEPT !.override = 1, !.write_n = 2, !.addr = 134217728 + i.imm,
                   !.wdata = x1]
    ELSE IF i.op = "LW"
    THEN [t EXCEPT !.override = 1, !.read_n = 2, !.addr = 134217728 + i.imm]
    ELSE t

\* the ADDI of mmio_write_small and mmio_write32 has x1 as its destination,
\* the NOPs have x0
WritesX1(i) ==
    i.by = "test" /\ sc.prog[i.call].op \in {"mmio_write_small", "mmio_write32"}

\* the immediate of an ADDI as the CPU takes it, sign-extended from 12 bits
SignedImm12(imm) == IF imm >= 2048 THEN imm - 4096 ELSE imm

\* the CPU after it has executed the instruction offered, the registers of
\* the peripherals being h before the edge
CpuExec(c, h, lines) ==
    LET i == c.line
    IN  [c EXCEPT !.line = NoInstr,
                  !.lat = 0,
                  !.x1 = IF i.op = "ADDI" /\ WritesX1(i)
                         THEN ExecADDI(IF sc.prog[i.call].op = "mmio_write32"
                                       THEN @ ELSE << >>, SignedImm12(i.imm))
                         ELSE IF i.op = "LUI" THEN ExecLUI(i.imm)
                         ELSE IF i.op = "LW" THEN WTrunc(HwRdata(h, lines).bits, 32)
                         ELSE @]

\* the CPU executes the instruction offered at the next edge
CpuTakes == cpu.line # NoInstr /\ cpu.lat <= 1

\* the lines the peripherals see at the next edge
KickLines == IF CpuTakes THEN CpuBus(tb, cpu.line, cpu.x1) ELSE tb

\* send_instr of the test: the next instruction of the call is offered
TimedSend ==
    /\ sc.pos = "send"
    /\ cpu.line = NoInstr
    /\ cpu.queue # << >>
    /\ \E n \in InstrClocks :
          cpu' = [cpu EXCEPT !.line = Head(cpu.queue), !.queue = Tail(@), !.lat = n]
    /\ sc' = [sc EXCEPT !.issued = Append(@, Head(cpu.queue))]
    /\ UNCHANGED nvars

\* a rising edge of the clock while the test waits in send_instr, read_reg,
\* Timer or stop_nops
CpuClock ==
    /\ pc = "idle"
    /\ \/ sc.pos \in {"send", "stopping"} /\ cpu.line # NoInstr
       \/ sc.pos = "timer" /\ wait > 0
    /\ hw' = HwTimeEdge(hw, KickLines)
    /\ cpu' = IF CpuTakes THEN CpuExec(cpu, hw, KickLines)
              ELSE [cpu EXCEPT !.lat = IF @ > 0 THEN @ - 1 ELSE 0]
    /\ wait' = IF wait > 0 THEN wait - 1 ELSE 0
    /\ UNCHANGED <<data, crc_tp, crc_e2e, crc_gold, seal_in, seal_out, cpu_in, fpc,
                   tb, pc, rval, last, trace, sc>>

\* the call returns; mmio_read returns x1
TimedCallReturn ==
    /\ sc.pos = "send"
    /\ cpu.queue = << >>
    /\ cpu.line.by # "test"
    /\ sc' = IF Cur.op = "mmio_read"
             THEN [sc EXCEPT !.pos = "run", !.ip = @ + 1, !.log = Append(@, cpu.x1)]
             ELSE [sc EXCEPT !.pos = "run", !.ip = @ + 1]
    /\ UNCHANGED <<cpu, nvars>>

\* await Timer(us, unit="us"): the test waits us microseconds of the clock
TimedTimer ==
    /\ At("timer")
    /\ wait' = TicksPerUs * Cur.n
    /\ sc' = [sc EXCEPT !.pos = "timer"]
    /\ UNCHANGED <<tb, pc, rval, last, trace, hw, fvars>>

\* the Timer fires
TimedTimerExpire ==
    /\ sc.pos = "timer" /\ wait = 0
    /\ sc' = [sc EXCEPT !.pos = "run", !.ip = @ + 1]
    /\ UNCHANGED <<tb, pc, wait, rval, last, trace, hw, fvars>>

\* a rising edge while a test of test_peripherals.py waits in ClockCycles
BusClock == pc # "idle" /\ TickTimed

WdtNext ==
    \/ BusClock
    \/ ScriptStart
    \/ WriteDeassert
    \/ WriteReturn
    \/ ReadFastSample
    \/ ReadFastReturn
    \/ AwaitDone
    \/ RunWrite
    \/ RunReadFast
    \/ RunCycles
    \/ RunProbeRst
    \/ RunAssert
    \/ RunMmioWriteSmall
    \/ RunMmioRead
    \/ TimedSend
    \/ CpuClock
    \/ TimedCallReturn
    \/ RunStartNops
    \/ FeedNop
    \/ TimedTimer
    \/ TimedTimerExpire
    \/ RunStopNops
    \/ StopReturn
    \/ RunResyncCpu

SpecWdt == WdtInit /\ [][WdtNext]_vars

\* the lines carry a write that reloads the watchdog at the next edge
KickReload == HwWdtReload(KickLines) /\ hw.rst_hold = 0

\* test_e2e_wdt_enable_read has made its three reads and the watchdog has
\* not fired since the kick: sc.log holds the three counts read, sc.arg[1]
\* is the kick value, hw.note.wdt_prev the count it replaced
KickRead ==
    /\ sc.test = "test_e2e_wdt_enable_read" /\ Len(sc.log) = 3
    /\ hw.wdt_en /\ ~hw.note.wdt_fired

\* C19: while armed and absent a reload the remaining count goes down by
\* one at every microsecond tick and stays between ticks; a reload sets it
\* to the value written; the count read after a kick with V is above 0 and
\* at most V, and above the count before the kick when V exceeds that
\* count; the tests of the watchdog pass.
C19_WdtCountsDown ==
    /\ [](KickRead =>
            LET r == WVal(sc.log[3])
            IN  /\ 0 < r /\ r <= sc.arg[1]
                /\ sc.arg[1] > hw.note.wdt_prev => r > hw.note.wdt_prev)
    /\ []((sc.test = "test_e2e_wdt_enable_read" /\ Len(sc.log) >= 2) =>
            WVal(sc.log[2]) < WVal(sc.log[1]))
    /\ [](sc.test \in {"test_e2e_wdt_enable_read", "test_wdt_random_kick"}
             => sc.pos # "fail")
    /\ [][(hw' # hw /\ hw.wdt_en /\ KickReload) =>
             hw'.wdt_rem = WVal(WTrunc(KickLines.wdata, 32)) /\ hw'.wdt_en]_vars
    /\ [][(hw' # hw /\ hw.wdt_en /\ hw'.wdt_en /\ ~KickReload) =>
             hw'.wdt_rem = IF HwTickUs(hw) THEN hw.wdt_rem - 1 ELSE hw.wdt_rem]_vars

\* the test has kicked the watchdog with 500 while 299 were left, a
\* microsecond tick has passed before the load, and the test has ended
C19_Witness ==
    /\ KickRead /\ ScriptDone
    /\ sc.arg[1] = 500
    /\ hw.note.wdt_prev = 299
    /\ sc.log[2] = WInt(299)
    /\ sc.log[3] = WInt(499)

-----------------------------------------------------------------------------
(* The values the tests of test_peripheral_e2e.py pass to                   *)
(* mmio_write_small: each call with its line, its offset and the values its *)
(* argument can have.                                                       *)

\* the mutant: test_val is drawn from 0..0xFFF
mmio_write_small_calls_m ==
    { <<370, OFF_SEAL_DATA, 0..4095>>, <<373, OFF_SEAL_CTRL, {2}>> }

\* the calls of mmio_write_small: constants, bytes of random.randint(0, 255)
\* (lines 152, 187, 188) and test_val = random.randint(0, 0x7FF) (line 369)
mmio_write_small_calls ==
    { <<157, OFF_CRC16, {256}>>,
      <<161, OFF_CRC16, 0..255>>,
      <<191, OFF_GPIO_OUT_SEL, 0..255>>,
      <<192, OFF_GPIO_OUT, 0..255>>,
      <<212, OFF_GPIO_OUT_SEL, {0}>>,
      <<213, OFF_GPIO_OUT, {128}>>,
      <<226, OFF_TIMER, {100}>>,
      <<333, OFF_WDT, {500}>>,
      <<354, OFF_WDT, {500}>>,
      <<370, OFF_SEAL_DATA, 0..2047>>,
      <<373, OFF_SEAL_CTRL, {2}>>,
      <<446, OFF_I2C_CONFIG, {4}>>,
      <<455, OFF_I2C_DATA, {Shl(1, 10) + 136}>>,
      <<477, OFF_I2C_DATA, {36}>>,
      <<483, OFF_I2C_DATA, {Shl(1, 9)}>>,
      <<491, OFF_I2C_DATA, {Shl(1, 10) + 137}>>,
      <<512, OFF_I2C_DATA, {Shl(1, 8), Shl(1, 8) + Shl(1, 9)}>> }

\* a call of mmio_write_small by a test, at the line sc.arg[1]
SiteInit ==
    /\ fpc = "small"
    /\ \E c \in mmio_write_small_calls :
          /\ cpu_in \in { [offset |-> c[2], val |-> WInt(v)] : v \in c[3] }
          /\ sc = [ScNone EXCEPT !.arg = <<c[1]>>]
    /\ cpu = CpuNone
    /\ CrcIdle
    /\ SealIdle
    /\ tb = TbNone /\ pc = "off" /\ wait = 0 /\ rval = << >> /\ last = LastNone
    /\ trace = << >> /\ hw = HwNone

SpecSites == SiteInit /\ [][SmallNext]_vars

\* C38: every value a test passes to mmio_write_small is in 0..0x7FF: the
\* encoder takes it, the ADDI carries the value itself, x1 holds it after
\* the ADDI and the word stored at the offset is the value, not changed by
\* the sign extension of the immediate.
C38_SmallValuesInRange ==
    /\ WVal(cpu_in.val) \in 0..2047
    /\ fpc # "small_raise"
    /\ fpc \in {"small_sw", "small_done"} =>
          /\ cpu.stream[1] = Instr("ADDI", WVal(cpu_in.val), 0)
          /\ cpu.x1 = cpu_in.val
    /\ fpc = "small_done" => cpu.store = <<cpu_in.offset, cpu_in.val>>

\* line 370 with test_val = 0x7FF, the largest value of its range, has
\* stored 0x7FF to SEAL_DATA
C38_Witness ==
    /\ fpc = "small_done"
    /\ sc.arg = <<370>>
    /\ cpu_in = [offset |-> OFF_SEAL_DATA, val |-> WInt(2047)]
    /\ cpu.store = <<OFF_SEAL_DATA, WInt(2047)>>

-----------------------------------------------------------------------------
\* C39: the LUI immediate mmio_write32 hands to the encoder, upper &
\* 0xFFFFF, is in 0..0xFFFFF, also when upper is 0x100000, and the ADDI
\* immediate is in -2048..2047; the register after the LUI holds the low 32
\* bits of upper << 12, so the mask changes nothing of the value built, and
\* x1 is val after the ADDI.
C39_ImmediatesInRange ==
    /\ fpc \in {"addi", "sw", "w32_done"} =>
          /\ cpu.stream[1].op = "LUI"
          /\ cpu.stream[1].imm \in 0..1048575
          /\ cpu.stream[1].imm = cpu.upper % 1048576
          /\ cpu.upper \in 0..1048576
          /\ cpu.upper = 1048576 <=> WVal(WShr(cpu_in.val, 11)) = 2097151
          /\ ExecLUI(cpu.stream[1].imm) = WTrunc(WShl(WInt(cpu.upper), 12), 32)
    /\ fpc \in {"sw", "w32_done"} =>
          /\ cpu.stream[2].op = "ADDI"
          /\ cpu.stream[2].imm \in Imm12
          /\ cpu.x1 = cpu_in.val

\* 0xFFFFFFFF has been written: upper is 0x100000, the LUI carries 0 and the
\* ADDI -1
C39_Witness ==
    /\ fpc = "w32_done"
    /\ cpu_in.val = W32(65535, 65535)
    /\ cpu.upper = 1048576
    /\ cpu.stream[1] = [op |-> "LUI", imm |-> 0]
    /\ cpu.stream[2] = [op |-> "ADDI", imm |-> -1]
    /\ cpu.store[2] = W32(65535, 65535)

====
